---- MODULE Spec2Model ----
(***************************************************************************)
(* Agent Firewall: the policy engine, the interceptor and the transport    *)
(* adapters of extensions/agent-firewall, as a state machine.              *)
(*                                                                         *)
(* Conventions.  Python None is the string "None".  A confidence is an     *)
(* integer number of hundredths (0.70 is 70).  A matched-pattern tag       *)
(* "ac:rm -rf" is the pair <<"ac", "rm -rf">>.  A payload is named by a     *)
(* short string; PayloadOf gives what the analyzers see of its text.       *)
(***************************************************************************)
EXTENDS Integers, Sequences, FiniteSets, TLC

VARIABLES
    pol,            \* PolicySpec: the policy function's inputs and its output
    classifier,     \* SemanticAnalyzer._classifier: "mock" or "llm"
    sessions,       \* SessionManager._sessions: session id -> SessionContext
    task,           \* one record per handler invocation (task of the event loop)
    nmsgs,          \* number of inbound messages read so far
    next_rid,       \* source of AnalysisResult.request_id values
    hub_returned,   \* <<request_id, verdict>> pairs request_human_verdict returned
    now,            \* the reading of time.time()
    gc_swept,       \* sessions removed so far, as the sweeper's log counts them
    pending,        \* DashboardHub._pending_escalations: request id -> future
    futures,        \* future -> "pending", "cancelled" or its result, a Verdict
    waiter,         \* request id -> position of the request_human_verdict call
    clients,        \* DashboardHub._clients: client id -> queue of events
    held,           \* connection -> the SessionContext its handler holds
    analyzers,      \* StaticAnalyzer object -> its _blocked_commands
    l1_refs,        \* holder of a reference ("app" or an adapter) -> object
    l1_log,         \* what the latest interception's L1 call reported
    pumps,          \* one WebSocket proxy connection: its two pumps and sockets
    call            \* one call of an analyzer on its own: its argument and result

ruleVars == <<analyzers, l1_refs, l1_log>>
envVars ==
    <<now, gc_swept, pending, futures, waiter, clients, held, ruleVars, pumps, call>>
vars == <<pol, classifier, sessions, task, nmsgs, next_rid, hub_returned, envVars>>
gwVars == <<classifier, sessions, task, nmsgs, next_rid, hub_returned, envVars>>

(***************************************************************************)
(* Bounds of the model.                                                    *)
(***************************************************************************)
ConfScale == 100      \* confidences range over 0..ConfScale hundredths
MaxTasks == 2         \* handler invocations in flight at once
MaxMsgs == 2          \* inbound messages read in one behaviour
BufSize == 2          \* session_ring_buffer_size of the configuration

None == "None"

(***************************************************************************)
(* models.py: ThreatLevel, Verdict; static_analyzer.py: _threat_ord.       *)
(***************************************************************************)
ThreatLevel == {"NONE", "LOW", "MEDIUM", "HIGH", "CRITICAL"}
Verdict == {"ALLOW", "BLOCK", "ESCALATE"}

\* _threat_ord with MEDIUM and HIGH exchanged.
threat_ord_swapped(level) ==
    CASE level = "NONE" -> 0
      [] level = "LOW" -> 1
      [] level = "MEDIUM" -> 3
      [] level = "HIGH" -> 2
      [] level = "CRITICAL" -> 4

_threat_ord(level) ==
    CASE level = "NONE" -> 0
      [] level = "LOW" -> 1
      [] level = "MEDIUM" -> 2
      [] level = "HIGH" -> 3
      [] level = "CRITICAL" -> 4

(***************************************************************************)
(* semantic_analyzer.py: L2Result() with its defaults.                     *)
(***************************************************************************)
L2Result(is_injection, confidence, reasoning, threat_level) ==
    [is_injection |-> is_injection, confidence |-> confidence,
     reasoning |-> reasoning, threat_level |-> threat_level]

L2Default(reasoning) == L2Result(FALSE, 0, reasoning, "NONE")

L1Result(matched_patterns, threat_level) ==
    [matched_patterns |-> matched_patterns, threat_level |-> threat_level]

Min(a, b) == IF a < b THEN a ELSE b

Reason(text, l1_tags, l2_clause) == [text |-> text, l1 |-> l1_tags, l2 |-> l2_clause]

(***************************************************************************)
(* interceptor.py: _compute_verdict.  The reason string is kept as its     *)
(* parts: the first five L1 tags and the L2 clause (confidence, reasoning);*)
(* with neither, the text "Clean".                                         *)
(***************************************************************************)
\* _compute_verdict with > in place of >= at the three thresholds.
compute_verdict_strict(l1, l2) ==
    LET threat == IF _threat_ord(l2.threat_level) > _threat_ord(l1.threat_level)
                  THEN l2.threat_level ELSE l1.threat_level
        reason == Reason(IF l1.matched_patterns = <<>> /\ ~l2.is_injection
                         THEN "Clean" ELSE "",
                         SubSeq(l1.matched_patterns, 1, Min(5, Len(l1.matched_patterns))),
                         IF l2.is_injection THEN <<l2.confidence, l2.reasoning>> ELSE <<>>)
        l1_ord == _threat_ord(l1.threat_level)
        verdict ==
            IF l1_ord >= _threat_ord("CRITICAL") THEN "BLOCK"
            ELSE IF l1_ord >= _threat_ord("HIGH") THEN
                (IF l2.is_injection /\ l2.confidence > 70 THEN "BLOCK" ELSE "ESCALATE")
            ELSE IF l1_ord >= _threat_ord("MEDIUM") THEN
                (IF l2.is_injection /\ l2.confidence > 80 THEN "BLOCK"
                 ELSE IF l2.is_injection THEN "ESCALATE" ELSE "ALLOW")
            ELSE IF l2.is_injection /\ l2.confidence > 90 THEN "BLOCK"
            ELSE IF l2.is_injection /\ l2.confidence > 70 THEN "ESCALATE"
            ELSE "ALLOW"
    IN  [verdict |-> verdict, threat_level |-> threat, reason |-> reason]

\* _compute_verdict whose HIGH row blocks whatever L2 says.
compute_verdict_high_blocks(l1, l2) ==
    LET threat == IF _threat_ord(l2.threat_level) > _threat_ord(l1.threat_level)
                  THEN l2.threat_level ELSE l1.threat_level
        reason == Reason(IF l1.matched_patterns = <<>> /\ ~l2.is_injection
                         THEN "Clean" ELSE "",
                         SubSeq(l1.matched_patterns, 1, Min(5, Len(l1.matched_patterns))),
                         IF l2.is_injection THEN <<l2.confidence, l2.reasoning>> ELSE <<>>)
        l1_ord == _threat_ord(l1.threat_level)
        verdict ==
            IF l1_ord >= _threat_ord("HIGH") THEN "BLOCK"
            ELSE IF l1_ord >= _threat_ord("MEDIUM") THEN
                (IF l2.is_injection /\ l2.confidence >= 80 THEN "BLOCK"
                 ELSE IF l2.is_injection THEN "ESCALATE" ELSE "ALLOW")
            ELSE IF l2.is_injection /\ l2.confidence >= 90 THEN "BLOCK"
            ELSE IF l2.is_injection /\ l2.confidence >= 70 THEN "ESCALATE"
            ELSE "ALLOW"
    IN  [verdict |-> verdict, threat_level |-> threat, reason |-> reason]

_compute_verdict(l1, l2) ==
    LET threat == IF _threat_ord(l2.threat_level) > _threat_ord(l1.threat_level)
                  THEN l2.threat_level ELSE l1.threat_level
        reason == Reason(IF l1.matched_patterns = <<>> /\ ~l2.is_injection
                         THEN "Clean" ELSE "",
                         SubSeq(l1.matched_patterns, 1, Min(5, Len(l1.matched_patterns))),
                         IF l2.is_injection THEN <<l2.confidence, l2.reasoning>> ELSE <<>>)
        l1_ord == _threat_ord(l1.threat_level)
        verdict ==
            IF l1_ord >= _threat_ord("CRITICAL") THEN "BLOCK"
            ELSE IF l1_ord >= _threat_ord("HIGH") THEN
                (IF l2.is_injection /\ l2.confidence >= 70 THEN "BLOCK" ELSE "ESCALATE")
            ELSE IF l1_ord >= _threat_ord("MEDIUM") THEN
                (IF l2.is_injection /\ l2.confidence >= 80 THEN "BLOCK"
                 ELSE IF l2.is_injection THEN "ESCALATE" ELSE "ALLOW")
            ELSE IF l2.is_injection /\ l2.confidence >= 90 THEN "BLOCK"
            ELSE IF l2.is_injection /\ l2.confidence >= 70 THEN "ESCALATE"
            ELSE "ALLOW"
    IN  [verdict |-> verdict, threat_level |-> threat, reason |-> reason]

(***************************************************************************)
(* What the analyzers see of a payload's text.                             *)
(*   wf         the bytes are JSON and a JSON-RPC 2.0 envelope             *)
(*   method,id  the envelope's fields (id None: a notification)            *)
(*   lits       the literals occurring in the text                         *)
(*   rx         the detectors of _REGEX_BATTERY that match the text        *)
(*   b64_lits   the literals occurring in a decoded base-64 run            *)
(*   markers    the MockClassifier markers in the serialized params        *)
(*   pv_markers the markers within the first 200 characters of str(params) *)
(*   deep       params nest deeper than the interpreter's recursion limit  *)
(*              (orjson.loads accepts up to 1024 levels)                   *)
(***************************************************************************)
Payload(wf, method, id, lits, rx, b64_lits, markers, pv_markers, deep) ==
    [wf |-> wf, method |-> method, id |-> id, lits |-> lits, rx |-> rx,
     b64_lits |-> b64_lits, markers |-> markers, pv_markers |-> pv_markers,
     deep |-> deep]

PayloadNames ==
    {"malformed", "tools_list", "benign_call", "res_read", "rm_rf", "traversal",
     "ignore_prev", "hex", "blob", "b64_rm", "sudo", "deep", "deep_inj", "ping_inj"}

PayloadOf ==
    [n \in PayloadNames |->
        CASE n = "malformed" ->
                Payload(FALSE, None, None, {}, {}, {}, {}, {}, FALSE)
          [] n = "tools_list" ->
                Payload(TRUE, "tools/list", "1", {}, {}, {}, {}, {}, FALSE)
          [] n = "benign_call" ->
                Payload(TRUE, "tools/call", "2", {}, {}, {}, {}, {}, FALSE)
          [] n = "res_read" ->
                Payload(TRUE, "resources/read", None, {}, {}, {}, {}, {}, FALSE)
          [] n = "rm_rf" ->
                Payload(TRUE, "tools/call", "10", {"rm -rf"}, {}, {}, {}, {}, FALSE)
          [] n = "traversal" ->
                Payload(TRUE, "tools/call", "40", {"/etc/passwd"}, {"path_traversal"},
                        {}, {}, {}, FALSE)
          [] n = "ignore_prev" ->
                Payload(TRUE, "tools/call", "30", {}, {"prompt_injection_marker"}, {},
                        {"ignore previous"}, {"ignore previous"}, FALSE)
          [] n = "hex" ->
                Payload(TRUE, "tools/call", None, {}, {"hex_obfuscation"}, {}, {}, {}, FALSE)
          [] n = "blob" ->
                Payload(TRUE, "resources/read", "60", {}, {"suspicious_base64_blob"},
                        {}, {}, {}, FALSE)
          [] n = "b64_rm" ->
                Payload(TRUE, "tools/call", "20", {},
                        {"shell_pipe_injection", "base64_obfuscation"}, {"rm -rf"},
                        {}, {}, FALSE)
          [] n = "sudo" ->
                Payload(TRUE, "tools/call", "70", {}, {}, {}, {"sudo"}, {"sudo"}, FALSE)
          [] n = "deep" ->
                Payload(TRUE, "tools/call", "80", {}, {}, {}, {}, {}, TRUE)
          [] n = "deep_inj" ->
                Payload(TRUE, "tools/call", "90", {}, {"prompt_injection_marker"}, {},
                        {"ignore previous"}, {"ignore previous"}, TRUE)
          [] n = "ping_inj" ->
                Payload(TRUE, "ping", "3", {"rm -rf"}, {"prompt_injection_marker"}, {},
                        {"ignore previous"}, {"ignore previous"}, TRUE)]

(***************************************************************************)
(* config.py: FirewallConfig.blocked_commands (the default).               *)
(***************************************************************************)
blocked_commands ==
    {"rm -rf", "/etc/shadow", "/etc/passwd", "DROP TABLE", "DELETE FROM", "TRUNCATE",
     "shutdown", "mkfs", "dd if=", "FORMAT C:", "wget|sh", "curl|bash"}

RECURSIVE SeqOf(_)
SeqOf(S) == IF S = {} THEN <<>>
            ELSE LET x == CHOOSE y \in S : TRUE IN <<x>> \o SeqOf(S \ {x})

(***************************************************************************)
(* static_analyzer.py: AhoCorasickMatcher.find_all, the patterns of the    *)
(* rule set found in a text (given by the literals it holds).              *)
(***************************************************************************)
find_all(patterns, text_lits) == SeqOf(patterns \cap text_lits)

(***************************************************************************)
(* static_analyzer.py: _REGEX_BATTERY, each detector with its severity.    *)
(***************************************************************************)
REGEX_BATTERY ==
    << [name |-> "shell_pipe_injection", level |-> "HIGH"],
       [name |-> "prompt_injection_marker", level |-> "CRITICAL"],
       [name |-> "base64_obfuscation", level |-> "HIGH"],
       [name |-> "hex_obfuscation", level |-> "MEDIUM"],
       [name |-> "path_traversal", level |-> "HIGH"],
       [name |-> "env_exfiltration", level |-> "CRITICAL"],
       [name |-> "sql_injection", level |-> "HIGH"],
       [name |-> "data_exfiltration_url", level |-> "HIGH"],
       [name |-> "suspicious_base64_blob", level |-> "LOW"] >>

(***************************************************************************)
(* static_analyzer.py: StaticAnalyzer._check_base64_payloads.              *)
(***************************************************************************)
check_base64_payloads(patterns, p) == find_all(patterns, p.b64_lits) # <<>>

RECURSIVE BatteryScan(_, _, _, _)
BatteryScan(i, p, matched, highest) ==
    IF i > Len(REGEX_BATTERY) THEN [matched |-> matched, highest |-> highest]
    ELSE LET e == REGEX_BATTERY[i] IN
         IF e.name \in p.rx
         THEN BatteryScan(i + 1, p, Append(matched, <<"regex", e.name>>),
                          IF _threat_ord(e.level) > _threat_ord(highest)
                          THEN e.level ELSE highest)
         ELSE BatteryScan(i + 1, p, matched, highest)

(***************************************************************************)
(* static_analyzer.py: StaticAnalyzer.analyze.                             *)
(***************************************************************************)
\* analyze that tags a decoded base-64 hit and leaves the level as it was.
StaticAnalyzer_analyze_tag_only(patterns, p) ==
    LET ac_hits == find_all(patterns, p.lits)
        ac_tags == [i \in 1..Len(ac_hits) |-> <<"ac", ac_hits[i]>>]
        level1 == IF ac_hits # <<>> THEN "HIGH" ELSE "NONE"
        scan == BatteryScan(1, p, ac_tags, level1)
        b64_threat == check_base64_payloads(patterns, p)
        matched == IF b64_threat
                   THEN Append(scan.matched, <<"heuristic", "base64_decoded_threat">>)
                   ELSE scan.matched
    IN  L1Result(matched, scan.highest)

StaticAnalyzer_analyze(patterns, p) ==
    LET ac_hits == find_all(patterns, p.lits)
        ac_tags == [i \in 1..Len(ac_hits) |-> <<"ac", ac_hits[i]>>]
        level1 == IF ac_hits # <<>> THEN "HIGH" ELSE "NONE"
        scan == BatteryScan(1, p, ac_tags, level1)
        b64_threat == check_base64_payloads(patterns, p)
        matched == IF b64_threat
                   THEN Append(scan.matched, <<"heuristic", "base64_decoded_threat">>)
                   ELSE scan.matched
        highest == IF b64_threat /\ _threat_ord("HIGH") > _threat_ord(scan.highest)
                   THEN "HIGH" ELSE scan.highest
    IN  L1Result(matched, highest)

(***************************************************************************)
(* static_analyzer.py: StaticAnalyzer.__init__ (an empty set is falsy and  *)
(* gives the default set), add_rule and remove_rule, on the object's       *)
(* _blocked_commands.                                                      *)
(***************************************************************************)
StaticAnalyzer_init(patterns) == IF patterns = {} THEN blocked_commands ELSE patterns

StaticAnalyzer_add_rule(rules, pattern) == rules \cup {pattern}

StaticAnalyzer_remove_rule(rules, pattern) == rules \ {pattern}

(***************************************************************************)
(* main.py: AppState.__init__ and sse_adapter.py: the constructors.  One   *)
(* StaticAnalyzer is built and handed to both adapters, which keep it in   *)
(* their attribute _l1.                                                    *)
(***************************************************************************)
L1Holders == {"app", "sse._l1", "ws._l1"}

(***************************************************************************)
(* semantic_analyzer.py: MockClassifier._INJECTION_MARKERS.                *)
(***************************************************************************)
INJECTION_MARKERS ==
    << [marker |-> "ignore previous", confidence |-> 95],
       [marker |-> "ignore all instructions", confidence |-> 95],
       [marker |-> "disregard above", confidence |-> 93],
       [marker |-> "forget everything", confidence |-> 92],
       [marker |-> "you are now", confidence |-> 90],
       [marker |-> "new persona", confidence |-> 88],
       [marker |-> "system prompt", confidence |-> 88],
       [marker |-> "send me the content", confidence |-> 85],
       [marker |-> "output your instructions", confidence |-> 87],
       [marker |-> "repeat the above", confidence |-> 80],
       [marker |-> "act as root", confidence |-> 92],
       [marker |-> "sudo", confidence |-> 70] >>

(***************************************************************************)
(* A session message's content as the interceptor pushes it: the method,   *)
(* the 200-character params preview (named by its payload; None on the     *)
(* safe-method path) and the verdict.                                      *)
(***************************************************************************)
ContentMarkers(content) ==
    IF content.params_preview = None THEN {}
    ELSE PayloadOf[content.params_preview].pv_markers

LastN(seq, n) == IF Len(seq) <= n THEN seq ELSE SubSeq(seq, Len(seq) - n + 1, Len(seq))

(***************************************************************************)
(* semantic_analyzer.py: _serialize_for_search, as the markers the search  *)
(* text holds: those of the params and of the last ten session messages.   *)
(***************************************************************************)
\* _serialize_for_search over the whole context, with no cut at ten.
serialize_for_search_all(p, session_context) ==
    p.markers \cup UNION {ContentMarkers(session_context[i].content) :
                            i \in 1..Len(session_context)}

serialize_for_search(p, session_context) ==
    LET recent == LastN(session_context, 10) IN
    p.markers \cup UNION {ContentMarkers(recent[i].content) : i \in 1..Len(recent)}

RECURSIVE BestMatch(_, _, _)
BestMatch(i, found, best) ==
    IF i > Len(INJECTION_MARKERS) THEN best
    ELSE LET e == INJECTION_MARKERS[i] IN
         IF e.marker \in found /\ (best = <<>> \/ e.confidence > best[1].confidence)
         THEN BestMatch(i + 1, found, <<e>>)
         ELSE BestMatch(i + 1, found, best)

(***************************************************************************)
(* semantic_analyzer.py: MockClassifier.classify.                          *)
(***************************************************************************)
MockClassifier_classify(p, session_context) ==
    LET best == BestMatch(1, serialize_for_search(p, session_context), <<>>) IN
    IF best # <<>>
    THEN L2Result(TRUE, best[1].confidence, best[1].marker,
                  IF best[1].confidence >= 90 THEN "CRITICAL"
                  ELSE IF best[1].confidence >= 80 THEN "HIGH" ELSE "MEDIUM")
    ELSE L2Result(FALSE, 5, "No injection patterns detected", "NONE")

(***************************************************************************)
(* semantic_analyzer.py: LlmClassifier.classify.  A reply is a failure     *)
(* class (timeout, transport or parse error, empty content) or the JSON    *)
(* object the model answered.  A field of the answer is kept as its JSON   *)
(* text ("true", "0.9", "\"false\""), "" when the key is absent; bool() and *)
(* float() convert it as Python does: every non-empty string is true, a    *)
(* string that is no number makes float() raise.                           *)
(***************************************************************************)
LlmFailures ==
    {"LLM timeout", "LLM error", "LLM returned empty response", "Analysis timeout"}

JsonNumbers == {"0.05", "0.69", "0.7", "0.75", "0.8", "0.9", "0.95"}

py_bool(text) == text \notin {"", "false", "null", "0", "\"\""}

py_float(text) ==
    CASE text = "" -> <<0>>
      [] text \in {"0.05", "\"0.05\""} -> <<5>>
      [] text \in {"0.69", "\"0.69\""} -> <<69>>
      [] text \in {"0.7", "\"0.7\""} -> <<70>>
      [] text \in {"0.75", "\"0.75\""} -> <<75>>
      [] text \in {"0.8", "\"0.8\""} -> <<80>>
      [] text \in {"0.9", "\"0.9\""} -> <<90>>
      [] text \in {"0.95", "\"0.95\""} -> <<95>>
      [] OTHER -> <<>>

LlmClassifier_classify(reply) ==
    IF reply.kind \in LlmFailures THEN L2Default(reply.kind)
    ELSE IF py_float(reply.confidence) = <<>> THEN L2Default("LLM error")
    ELSE LET is_injection == py_bool(reply.is_injection)
             confidence == py_float(reply.confidence)[1]
         IN  L2Result(is_injection, confidence, "llm",
                      IF is_injection /\ confidence >= 90 THEN "CRITICAL"
                      ELSE IF is_injection /\ confidence >= 70 THEN "HIGH"
                      ELSE IF is_injection THEN "MEDIUM" ELSE "NONE")

(***************************************************************************)
(* semantic_analyzer.py: SemanticAnalyzer.analyze.  Serializing params     *)
(* that nest deeper than orjson.dumps allows raises inside the classifier; *)
(* the wrapper answers the default result.                                 *)
(***************************************************************************)
SemanticAnalyzer_analyze(cls, p, session_context, reply) ==
    IF p.deep THEN L2Default("Analysis error")
    ELSE IF cls = "mock" THEN MockClassifier_classify(p, session_context)
    ELSE LlmClassifier_classify(reply)

(***************************************************************************)
(* interceptor.py: _HIGH_RISK_METHODS, _SAFE_METHODS.                      *)
(***************************************************************************)
HIGH_RISK_METHODS == {"tools/call", "completion/complete", "sampling/createMessage"}

SAFE_METHODS ==
    {"initialize", "initialized", "ping", "tools/list", "resources/list",
     "resources/templates/list", "prompts/list", "logging/setLevel"}

(***************************************************************************)
(* models.py: SessionContext and push_message.  seq[-m:] is Python's       *)
(* slice: the last m elements, and for m = 0 the whole list.  An entry's   *)
(* own timestamp is left out; last_active is stamped from the clock.       *)
(***************************************************************************)
SessionContext(session_id, agent_id, max_messages) ==
    [session_id |-> session_id, agent_id |-> agent_id, last_active |-> now,
     messages |-> <<>>, max_messages |-> max_messages]

PySliceLast(seq, m) ==
    IF m = 0 THEN seq
    ELSE IF m > 0 THEN LastN(seq, m)
    ELSE IF -m >= Len(seq) THEN <<>> ELSE SubSeq(seq, 1 - m, Len(seq))

\* push_message that appends nothing.
push_message_noop(s, role, content) == s

\* push_message that truncates from the head: the newest message is dropped.
push_message_keep_head(s, role, content) ==
    LET appended == Append(s.messages, [role |-> role, content |-> content]) IN
    [s EXCEPT !.messages = IF Len(appended) > s.max_messages
                           THEN SubSeq(appended, 1, s.max_messages)
                           ELSE appended,
              !.last_active = now]

push_message(s, role, content) ==
    LET appended == Append(s.messages, [role |-> role, content |-> content]) IN
    [s EXCEPT !.messages = IF Len(appended) > s.max_messages
                           THEN PySliceLast(appended, s.max_messages)
                           ELSE appended,
              !.last_active = now]

(***************************************************************************)
(* session_manager.py: SessionManager.get_or_create, on the map.           *)
(***************************************************************************)
\* get_or_create that builds a new session whatever the store holds.
get_or_create_replacing(store, session_id, agent_id) ==
    [sid \in DOMAIN store \cup {session_id} |->
        IF sid = session_id THEN SessionContext(session_id, agent_id, BufSize)
        ELSE store[sid]]

\* get_or_create that refreshes last_active on every session of the store.
get_or_create_touching_all(store, session_id, agent_id) ==
    LET touched == [sid \in DOMAIN store |-> [store[sid] EXCEPT !.last_active = now]] IN
    IF session_id \in DOMAIN store
    THEN touched
    ELSE touched @@ (session_id :> SessionContext(session_id, agent_id, BufSize))

get_or_create(store, session_id, agent_id) ==
    IF session_id \in DOMAIN store
    THEN [store EXCEPT ![session_id].last_active = now]
    ELSE store @@ (session_id :> SessionContext(session_id, agent_id, BufSize))

(***************************************************************************)
(* session_manager.py: SessionManager.get, None (<<>>) for an unknown id.  *)
(***************************************************************************)
get(store, session_id) ==
    IF session_id \in DOMAIN store THEN <<store[session_id]>> ELSE <<>>

(***************************************************************************)
(* models.py: AnalysisResult, JsonRpcError, JsonRpcResponse and to_bytes.  *)
(* An optional value is <<>> (None) or <<v>>.  to_bytes is the wire        *)
(* object: model_dump(exclude_none=True) leaves out result, an id of None  *)
(* and an error's data of None.                                            *)
(***************************************************************************)
AnalysisResult(request_id, l1, l2, verdict, threat_level, blocked_reason) ==
    [request_id |-> request_id,
     l1_matched_patterns |-> l1.matched_patterns, l1_threat_level |-> l1.threat_level,
     l2_is_injection |-> l2.is_injection, l2_confidence |-> l2.confidence,
     l2_reasoning |-> l2.reasoning,
     verdict |-> verdict, threat_level |-> threat_level,
     blocked_reason |-> blocked_reason]

JsonRpcError(code, message, data) == [code |-> code, message |-> message, data |-> data]

JsonRpcResponse(id, error) == [id |-> id, error |-> error]

\* to_bytes dumping the error without its data.
to_bytes_without_data(resp) ==
    LET e == resp.error
        err == [code |-> e.code, message |-> e.message]
    IN  IF resp.id = None THEN [jsonrpc |-> "2.0", error |-> err]
        ELSE [jsonrpc |-> "2.0", error |-> err, id |-> resp.id]

to_bytes(resp) ==
    LET e == resp.error
        err == IF e.data = <<>> THEN [code |-> e.code, message |-> e.message]
               ELSE [code |-> e.code, message |-> e.message, data |-> e.data[1]]
    IN  IF resp.id = None THEN [jsonrpc |-> "2.0", error |-> err]
        ELSE [jsonrpc |-> "2.0", error |-> err, id |-> resp.id]

(***************************************************************************)
(* A handler invocation.  pc: "idle", "l2" (awaiting the semantic          *)
(* analyzer), "emit" (awaiting the callbacks), "done", "dead" (the pump    *)
(* ended on an exception).  outcome: how the interception call ended.      *)
(* ctx is the list object passed as session_context; ctx_live says that    *)
(* the classifier has not read it yet and that it still is the session's   *)
(* list, so that a push to the session shows in it.  audits and events     *)
(* count the calls of the two callbacks, faults names those that raised.   *)
(***************************************************************************)
IdleTask ==
    [pc |-> "idle", transport |-> None, sid |-> None, payload |-> None, msg |-> 0,
     calls |-> 0, outcome |-> "none", l1_calls |-> 0, l2_calls |-> 0,
     l1 |-> <<>>, l2 |-> <<>>, ctx |-> <<>>, ctx_live |-> FALSE,
     analysis |-> <<>>, response |-> <<>>,
     audits |-> 0, events |-> 0, faults |-> {}, forwarded |-> FALSE, reply |-> <<>>]

TaskIds == 1..MaxTasks

Out(r, store, rid, pushed) == [r |-> r, store |-> store, rid |-> rid, pushed |-> pushed]

(***************************************************************************)
(* interceptor.py: intercept_and_analyze, step 1's except branch: the      *)
(* parse-error response (no id, the exception text as data).               *)
(***************************************************************************)
\* The response with the Invalid Request code in place of Parse error.
parse_error_response_invalid_request(data) ==
    JsonRpcResponse(None, JsonRpcError(-32600, "Invalid Request", <<data>>))

parse_error_response(data) ==
    JsonRpcResponse(None, JsonRpcError(-32700, "Parse error", <<data>>))

(***************************************************************************)
(* interceptor.py: intercept_and_analyze, step 5: L2 is awaited for a      *)
(* high-risk method or an L1 finding, unless L1 is CRITICAL.               *)
(***************************************************************************)
\* The condition without the CRITICAL exception.
should_await_l2_any(method, l1) ==
    method \in HIGH_RISK_METHODS \/ l1.threat_level # "NONE"

\* The condition that ignores what L1 found below CRITICAL.
should_await_l2_high_risk_only(method, l1) ==
    method \in HIGH_RISK_METHODS /\ l1.threat_level # "CRITICAL"

should_await_l2(method, l1) ==
    LET run_l2 == method \in HIGH_RISK_METHODS \/ l1.threat_level # "NONE" IN
    run_l2 /\ l1.threat_level # "CRITICAL"

(***************************************************************************)
(* interceptor.py: intercept_and_analyze, step 9: the blocking response,   *)
(* built only for BLOCK, with the request's id.                            *)
(***************************************************************************)
\* The response built for every verdict but ALLOW.
block_response_unless_allow(id, a) ==
    IF a.verdict # "ALLOW"
    THEN <<JsonRpcResponse(id,
              JsonRpcError(-32001, "Request blocked by Agent Firewall",
                           <<[threat_level |-> a.threat_level, reason |-> a.blocked_reason,
                              request_id |-> a.request_id]>>))>>
    ELSE <<>>

block_response(id, a) ==
    IF a.verdict = "BLOCK"
    THEN <<JsonRpcResponse(id,
              JsonRpcError(-32001, "Request blocked by Agent Firewall",
                           <<[threat_level |-> a.threat_level, reason |-> a.blocked_reason,
                              request_id |-> a.request_id]>>))>>
    ELSE <<>>

(***************************************************************************)
(* interceptor.py: intercept_and_analyze, steps 6 and 7: the policy, the   *)
(* AnalysisResult and the session push.  str(request.params) raises        *)
(* RecursionError on params nested deeper than the recursion limit, before *)
(* push_message is called; whether it does depends on the interpreter.     *)
(***************************************************************************)
\* intercept_decide that lets the count of earlier analyses into the verdict.
intercept_decide_counting(r, store, rid, str_raises) ==
    LET p == PayloadOf[r.payload]
        pv == _compute_verdict(r.l1[1], IF rid > 1 THEN L2Default("") ELSE r.l2[1])
        analysis == AnalysisResult(rid, r.l1[1], r.l2[1], pv.verdict, pv.threat_level,
                                   pv.reason)
        content == [method |-> p.method, params_preview |-> r.payload,
                    verdict |-> pv.verdict]
    IN  IF str_raises
        THEN Out([r EXCEPT !.analysis = <<analysis>>, !.outcome = "raised"],
                 store, rid + 1, <<>>)
        ELSE Out([r EXCEPT !.analysis = <<analysis>>, !.pc = "emit"],
                 [store EXCEPT ![r.sid] = push_message(@, "agent", content)],
                 rid + 1, <<[role |-> "agent", content |-> content]>>)

intercept_decide(r, store, rid, str_raises) ==
    LET p == PayloadOf[r.payload]
        pv == _compute_verdict(r.l1[1], r.l2[1])
        analysis == AnalysisResult(rid, r.l1[1], r.l2[1], pv.verdict, pv.threat_level,
                                   pv.reason)
        content == [method |-> p.method, params_preview |-> r.payload,
                    verdict |-> pv.verdict]
    IN  IF str_raises
        THEN Out([r EXCEPT !.analysis = <<analysis>>, !.outcome = "raised"],
                 store, rid + 1, <<>>)
        ELSE Out([r EXCEPT !.analysis = <<analysis>>, !.pc = "emit"],
                 [store EXCEPT ![r.sid] = push_message(@, "agent", content)],
                 rid + 1, <<[role |-> "agent", content |-> content]>>)

(***************************************************************************)
(* interceptor.py: intercept_and_analyze from its call to its first        *)
(* suspension point: parse, the safe-method fast path, L1, and the         *)
(* decision whether to await L2.  `session_context or []` hands the        *)
(* classifier the session's list unless that list is empty.                *)
(***************************************************************************)
intercept_begin(r0, store, rid, cls, str_raises) ==
    LET p == PayloadOf[r0.payload]
        r == [r0 EXCEPT !.calls = @ + 1]
        l1 == StaticAnalyzer_analyze(blocked_commands, p)
        safe == [method |-> p.method, params_preview |-> None, verdict |-> None]
        messages == store[r.sid].messages
    IN  IF ~p.wf
        THEN Out([r EXCEPT !.outcome = "returned",
                           !.analysis = <<AnalysisResult(rid, L1Result(<<>>, "NONE"),
                                                         L2Default(""), "BLOCK", "NONE",
                                                         Reason("Parse error", <<>>, <<>>))>>,
                           !.response = <<parse_error_response("exc")>>],
                 store, rid + 1, <<>>)
        ELSE IF p.method \in SAFE_METHODS
        THEN Out([r EXCEPT !.outcome = "returned",
                           !.analysis = <<AnalysisResult(rid, L1Result(<<>>, "NONE"),
                                                         L2Default(""), "ALLOW", "NONE",
                                                         Reason("", <<>>, <<>>))>>],
                 [store EXCEPT ![r.sid] = push_message(@, "agent", safe)],
                 rid + 1, <<[role |-> "agent", content |-> safe]>>)
        ELSE IF should_await_l2(p.method, l1)
        THEN Out([r EXCEPT !.l1_calls = @ + 1, !.l1 = <<l1>>, !.l2_calls = @ + 1,
                           !.ctx = IF cls = "mock" THEN messages ELSE <<>>,
                           !.ctx_live = cls = "mock" /\ messages # <<>>,
                           !.pc = "l2"],
                 store, rid, <<>>)
        ELSE intercept_decide([r EXCEPT !.l1_calls = @ + 1, !.l1 = <<l1>>,
                                        !.l2 = <<L2Default("")>>],
                              store, rid, str_raises)

(***************************************************************************)
(* interceptor.py: intercept_and_analyze when the awaited L2 call returns. *)
(***************************************************************************)
intercept_l2_returned(r, store, rid, cls, reply, str_raises) ==
    LET l2 == SemanticAnalyzer_analyze(cls, PayloadOf[r.payload], r.ctx, reply) IN
    intercept_decide([r EXCEPT !.l2 = <<l2>>, !.ctx = <<>>, !.ctx_live = FALSE],
                     store, rid, str_raises)

(***************************************************************************)
(* interceptor.py: intercept_and_analyze, steps 8 and 9: both callbacks    *)
(* are awaited (a raise of either is caught and logged), the blocking      *)
(* response is built, and the call returns.                                *)
(***************************************************************************)
\* Steps 8 and 9 with no try around the audit callback.
intercept_emit_audit_propagates(r, audit_raises, event_raises) ==
    LET a == r.analysis[1]
        p == PayloadOf[r.payload]
    IN  IF audit_raises
        THEN [r EXCEPT !.audits = @ + 1, !.faults = {"audit"}, !.outcome = "raised"]
        ELSE [r EXCEPT !.audits = @ + 1, !.events = @ + 1,
                       !.faults = IF event_raises THEN {"event"} ELSE {},
                       !.outcome = "returned",
                       !.response = block_response(p.id, a)]

intercept_emit(r, audit_raises, event_raises) ==
    LET a == r.analysis[1]
        p == PayloadOf[r.payload]
    IN  [r EXCEPT !.audits = @ + 1, !.events = @ + 1,
                  !.faults = (IF audit_raises THEN {"audit"} ELSE {})
                                \cup (IF event_raises THEN {"event"} ELSE {}),
                  !.outcome = "returned",
                  !.response = block_response(p.id, a)]

(***************************************************************************)
(* What each transport does with the outcome of the interception call.     *)
(* sse_adapter.py: handle_post (a raise leaves the handler: HTTP 500),     *)
(* _sanitize_sse_event (a raise is swallowed and the event passes on),     *)
(* _agent_to_server; stdio_adapter.py: _pipe_agent_to_server (a raise      *)
(* ends the pump).  forwarded: the original bytes were sent on.            *)
(***************************************************************************)
Wire(status, body) == [status |-> status, body |-> body]

\* respond with a stdio pump that writes a blocked line on to the server.
respond_forwarding(r) ==
    IF r.outcome = "raised"
    THEN CASE r.transport = "sse" -> [r EXCEPT !.pc = "done", !.forwarded = TRUE]
           [] r.transport = "post" -> [r EXCEPT !.pc = "done", !.reply = <<Wire(500, <<>>)>>]
           [] OTHER -> [r EXCEPT !.pc = "dead"]
    ELSE IF r.response # <<>>
    THEN [r EXCEPT !.pc = "done", !.forwarded = r.transport = "stdio",
                   !.reply = <<Wire(IF r.transport = "post" THEN 403 ELSE 0,
                                    <<to_bytes(r.response[1])>>)>>]
    ELSE [r EXCEPT !.pc = "done", !.forwarded = TRUE]

respond(r) ==
    IF r.outcome = "raised"
    THEN CASE r.transport = "sse" -> [r EXCEPT !.pc = "done", !.forwarded = TRUE]
           [] r.transport = "post" -> [r EXCEPT !.pc = "done", !.reply = <<Wire(500, <<>>)>>]
           [] OTHER -> [r EXCEPT !.pc = "dead"]
    ELSE IF r.response # <<>>
    THEN [r EXCEPT !.pc = "done",
                   !.reply = <<Wire(IF r.transport = "post" THEN 403 ELSE 0,
                                    <<to_bytes(r.response[1])>>)>>]
    ELSE [r EXCEPT !.pc = "done", !.forwarded = TRUE]

(***************************************************************************)
(* A push to a session shows in the list a pending classifier call of the  *)
(* same session holds, if the classifier has not run yet (seen) and the    *)
(* list is still the session's; push_message rebinds session.messages      *)
(* once the list outgrows max_messages.                                    *)
(***************************************************************************)
see(r, sid, pushed, seen, max_messages) ==
    IF pushed # <<>> /\ r.pc = "l2" /\ r.sid = sid /\ r.ctx_live
    THEN IF seen
         THEN [r EXCEPT !.ctx = Append(@, pushed[1]),
                        !.ctx_live = Len(r.ctx) + 1 <= max_messages]
         ELSE [r EXCEPT !.ctx_live = FALSE]
    ELSE r

(***************************************************************************)
(* The inputs of the model: session ids, the answers of the LLM, and       *)
(* whether str(params) raises (only params nested that deep can).          *)
(***************************************************************************)
PostSessionIds == {"s1"}

GatewayPayloads ==
    {"malformed", "ping_inj", "res_read", "rm_rf", "ignore_prev", "hex", "sudo", "deep",
     "deep_inj"}

NoReply == [kind |-> "none", is_injection |-> "", confidence |-> ""]

LlmReplies ==
    {[kind |-> "LLM timeout", is_injection |-> "", confidence |-> ""],
     [kind |-> "answer", is_injection |-> "false", confidence |-> "0.05"],
     [kind |-> "answer", is_injection |-> "\"false\"", confidence |-> "0.95"]}
    \cup {[kind |-> "answer", is_injection |-> "true", confidence |-> c] :
             c \in {"0.69", "0.8", "0.9"}}

Replies(cls) == IF cls = "llm" THEN LlmReplies ELSE {NoReply}

Raises(pn) == IF pn \in PayloadNames /\ PayloadOf[pn].deep THEN BOOLEAN ELSE {FALSE}

(***************************************************************************)
(* Whether the classifier has read its context matters only while a call   *)
(* of the session is pending on a list that is still the session's.        *)
(***************************************************************************)
Seen(sid) ==
    IF \E u \in TaskIds : task[u].pc = "l2" /\ task[u].sid = sid /\ task[u].ctx_live
    THEN BOOLEAN ELSE {TRUE}

(***************************************************************************)
(* A new handler invocation takes the first record that is not in use.     *)
(***************************************************************************)
FreeSlot(t) ==
    /\ task[t].pc \in {"idle", "done"}
    /\ \A u \in TaskIds : u < t => task[u].pc \notin {"idle", "done"}

Busy(tr) == \E u \in TaskIds : task[u].transport = tr /\ task[u].pc \in {"l2", "emit", "dead"}

(***************************************************************************)
(* A transport reads one inbound message and calls intercept_and_analyze   *)
(* on it; the step runs to the call's first await that suspends, or to     *)
(* the transport's answer if there is none.                                *)
(***************************************************************************)
Accept(t, tr, sid, agent_id, pn, str_raises, seen) ==
    LET store == get_or_create(sessions, sid, agent_id)
        r0 == [IdleTask EXCEPT !.transport = tr, !.sid = sid, !.payload = pn,
                               !.msg = nmsgs + 1]
        o == intercept_begin(r0, store, next_rid, classifier, str_raises)
    IN  /\ FreeSlot(t)
        /\ nmsgs < MaxMsgs
        /\ task' = [u \in TaskIds |->
                       IF u = t THEN IF o.r.pc = "idle" THEN respond(o.r) ELSE o.r
                       ELSE see(task[u], sid, o.pushed, seen, store[sid].max_messages)]
        /\ sessions' = o.store
        /\ next_rid' = o.rid
        /\ nmsgs' = nmsgs + 1
        /\ UNCHANGED <<pol, classifier, hub_returned, envVars>>

(***************************************************************************)
(* sse_adapter.py: SseAdapter.handle_post.                                 *)
(***************************************************************************)
handle_post(t, sid, pn, str_raises, seen) ==
    Accept(t, "post", sid, "http-agent", pn, str_raises, seen)

(***************************************************************************)
(* sse_adapter.py: WebSocketAdapter._agent_to_server, one turn of its      *)
(* loop; the session is the one handle_websocket got for the connection.   *)
(***************************************************************************)
_agent_to_server(t, pn, str_raises, seen) ==
    /\ ~Busy("ws")
    /\ Accept(t, "ws", "ws-1", "ws-agent", pn, str_raises, seen)

(***************************************************************************)
(* stdio_adapter.py: StdioAdapter._pipe_agent_to_server, one turn of its   *)
(* loop; the session is the one run() got for the child process.           *)
(***************************************************************************)
_pipe_agent_to_server(t, pn, str_raises, seen) ==
    /\ ~Busy("stdio")
    /\ Accept(t, "stdio", "stdio-1", "stdio-agent", pn, str_raises, seen)

(***************************************************************************)
(* sse_adapter.py: SseAdapter._sanitize_sse_event on an event with data    *)
(* lines; the session is the one handle_sse got for the stream.            *)
(***************************************************************************)
_sanitize_sse_event(t, pn, str_raises, seen) ==
    /\ ~Busy("sse")
    /\ Accept(t, "sse", "sse-default", "sse-agent", pn, str_raises, seen)

(***************************************************************************)
(* interceptor.py: intercept_and_analyze resumes when L2 returns.          *)
(***************************************************************************)
intercept_and_analyze_l2(t, reply, str_raises, seen) ==
    LET r == task[t]
        o == intercept_l2_returned(r, sessions, next_rid, classifier, reply, str_raises)
    IN  /\ r.pc = "l2"
        /\ r.transport # "openai"
        /\ task' = [u \in TaskIds |->
                       IF u = t THEN IF o.r.outcome = "raised" THEN respond(o.r) ELSE o.r
                       ELSE see(task[u], r.sid, o.pushed, seen,
                                sessions[r.sid].max_messages)]
        /\ sessions' = o.store
        /\ next_rid' = o.rid
        /\ UNCHANGED <<pol, classifier, nmsgs, hub_returned, envVars>>

(***************************************************************************)
(* interceptor.py: intercept_and_analyze resumes when the callbacks have   *)
(* returned, and the transport acts on what it returns.                    *)
(***************************************************************************)
intercept_and_analyze_emit(t, audit_raises, event_raises) ==
    /\ task[t].pc = "emit"
    /\ task' = [task EXCEPT ![t] =
                   respond(intercept_emit(task[t], audit_raises, event_raises))]
    /\ UNCHANGED <<pol, classifier, sessions, nmsgs, next_rid, hub_returned, envVars>>

(***************************************************************************)
(* openai_adapter.py: OpenAIAdapter.handle_chat_completion, to its await   *)
(* of the semantic analyzer.  The payload stands for the concatenated      *)
(* user content of the chat body; an unparsable body is HTTP 400, an L1    *)
(* level of HIGH or CRITICAL is HTTP 403.  No session is looked up and     *)
(* intercept_and_analyze is not called.                                    *)
(***************************************************************************)
OpenAIBodies == {pn \in GatewayPayloads : ~PayloadOf[pn].deep}

handle_chat_completion(t, pn) ==
    LET p == PayloadOf[pn]
        r == [IdleTask EXCEPT !.transport = "openai", !.payload = pn, !.msg = nmsgs + 1]
        l1 == StaticAnalyzer_analyze(blocked_commands, p)
    IN  /\ FreeSlot(t)
        /\ nmsgs < MaxMsgs
        /\ task' = [task EXCEPT ![t] =
                IF ~p.wf
                THEN [r EXCEPT !.pc = "done", !.reply = <<Wire(400, <<>>)>>]
                ELSE IF l1.threat_level \in {"CRITICAL", "HIGH"}
                THEN [r EXCEPT !.pc = "done", !.l1_calls = 1, !.l1 = <<l1>>,
                               !.reply = <<Wire(403, <<>>)>>]
                ELSE [r EXCEPT !.pc = "l2", !.l1_calls = 1, !.l1 = <<l1>>,
                               !.l2_calls = 1]]
        /\ nmsgs' = nmsgs + 1
        /\ UNCHANGED <<pol, classifier, sessions, next_rid, hub_returned, envVars>>

(***************************************************************************)
(* openai_adapter.py: handle_chat_completion resumes when L2 returns: an   *)
(* L2 level of HIGH or CRITICAL is HTTP 403, anything else is forwarded.   *)
(***************************************************************************)
handle_chat_completion_l2(t, reply) ==
    LET r == task[t]
        l2 == SemanticAnalyzer_analyze(classifier, PayloadOf[r.payload], <<>>, reply)
    IN  /\ r.pc = "l2"
        /\ r.transport = "openai"
        /\ task' = [task EXCEPT ![t] =
                IF l2.threat_level \in {"CRITICAL", "HIGH"}
                THEN [r EXCEPT !.pc = "done", !.l2 = <<l2>>, !.reply = <<Wire(403, <<>>)>>]
                ELSE [r EXCEPT !.pc = "done", !.l2 = <<l2>>, !.forwarded = TRUE]]
        /\ UNCHANGED <<pol, classifier, sessions, nmsgs, next_rid, hub_returned, envVars>>

(***************************************************************************)
(* The gateway: AppState after construction (main.py: the classifier is    *)
(* LlmClassifier if l2_enabled, else MockClassifier), no session yet, no   *)
(* handler running.                                                        *)
(***************************************************************************)
(***************************************************************************)
(* ws_handler.py: DashboardHub.__init__ (no client, nothing pending), and  *)
(* the clock at start.  A request_human_verdict call is "idle" (not made), *)
(* "waiting", "returned" or "cancelled".  The future a call creates is     *)
(* named by the call's request id; "none": not created.                    *)
(***************************************************************************)
HubRids == {"r1", "r2"}

EmptyMap == [x \in {} |-> x]

\* sse_adapter.py: handle_websocket once both sockets are open and gather
\* has started the two pumps.
PumpsInit ==
    [client |-> "open", upstream |-> "open", a2s |-> "running", s2a |-> "running",
     handler |-> "gather", up |-> 0, down |-> 0, replies |-> 0]

NoCall == [stage |-> "idle", arg |-> <<>>, out |-> <<>>]

EnvRest ==
    /\ now = 0
    /\ gc_swept = 0
    /\ pending = EmptyMap
    /\ futures = [f \in HubRids |-> "none"]
    /\ waiter = [rid \in HubRids |-> "idle"]
    /\ clients = EmptyMap
    /\ held = EmptyMap
    /\ analyzers = <<StaticAnalyzer_init(blocked_commands)>>
    /\ l1_refs = [h \in L1Holders |-> 1]
    /\ l1_log = <<>>
    /\ pumps = PumpsInit

EnvInit ==
    /\ call = NoCall
    /\ EnvRest

PolIdle == [stage |-> "idle", l1 |-> L1Result(<<>>, "NONE"), l2 |-> L2Default(""),
            out |-> <<>>]

Init ==
    /\ pol = PolIdle
    /\ classifier \in {"mock", "llm"}
    /\ sessions = [x \in {} |-> x]
    /\ task = [t \in TaskIds |-> IdleTask]
    /\ nmsgs = 0
    /\ next_rid = 1
    /\ hub_returned = {}
    /\ EnvInit

Next ==
    \/ \E t \in TaskIds, sid \in PostSessionIds, pn \in GatewayPayloads :
          \E str_raises \in Raises(pn), seen \in Seen(sid) :
             handle_post(t, sid, pn, str_raises, seen)
    \/ \E t \in TaskIds, pn \in GatewayPayloads :
          \E str_raises \in Raises(pn), seen \in Seen("ws-1") :
             _agent_to_server(t, pn, str_raises, seen)
    \/ \E t \in TaskIds, pn \in GatewayPayloads :
          \E str_raises \in Raises(pn), seen \in Seen("stdio-1") :
             _pipe_agent_to_server(t, pn, str_raises, seen)
    \/ \E t \in TaskIds, pn \in GatewayPayloads :
          \E str_raises \in Raises(pn), seen \in Seen("sse-default") :
             _sanitize_sse_event(t, pn, str_raises, seen)
    \/ \E t \in TaskIds, reply \in Replies(classifier) :
          \E str_raises \in Raises(task[t].payload), seen \in Seen(task[t].sid) :
             intercept_and_analyze_l2(t, reply, str_raises, seen)
    \/ \E t \in TaskIds : intercept_and_analyze_emit(t, FALSE, FALSE)
    \/ \E t \in TaskIds, pn \in OpenAIBodies : handle_chat_completion(t, pn)
    \/ \E t \in TaskIds, reply \in Replies(classifier) : handle_chat_completion_l2(t, reply)

Spec == Init /\ [][Next]_vars

(***************************************************************************)
(* The policy function on its own: every L1 level, with and without        *)
(* matched patterns, every L2 flag, confidence and level.                  *)
(***************************************************************************)
PolicyInputs ==
    [stage : {"in"},
     l1 : {L1Result(m, lv) : m \in {<<>>, <<<<"ac", "rm -rf">>>>}, lv \in ThreatLevel},
     l2 : {L2Result(inj, c, "r", lv) : inj \in BOOLEAN, c \in 0..ConfScale, lv \in ThreatLevel},
     out : {<<>>}]

PolInit ==
    /\ pol \in PolicyInputs
    /\ classifier = "mock"
    /\ sessions = [x \in {} |-> x]
    /\ task = [t \in TaskIds |-> IdleTask]
    /\ nmsgs = 0
    /\ next_rid = 1
    /\ hub_returned = {}
    /\ EnvInit

compute_verdict_call ==
    /\ pol.stage = "in"
    /\ pol' = [pol EXCEPT !.stage = "out", !.out = <<_compute_verdict(pol.l1, pol.l2)>>]
    /\ UNCHANGED gwVars

PolNext == compute_verdict_call

PolicySpec == PolInit /\ [][PolNext]_vars

(***************************************************************************)
(* The ring buffer on its own.  config.py reads AF_SESSION_BUFFER_SIZE     *)
(* with int() and no range check, so SessionManager hands any integer to   *)
(* SessionContext as max_messages; the session is then pushed to.  nmsgs   *)
(* counts the pushes.                                                      *)
(***************************************************************************)
MaxRing == 2

MaxPushes == 4

session_ring_buffer_size == -1 .. MaxRing

RingContents == {"a", "b", "c"}

RingInit ==
    /\ pol = PolIdle
    /\ classifier = "mock"
    /\ sessions = EmptyMap
    /\ task = [t \in TaskIds |-> IdleTask]
    /\ nmsgs = 0
    /\ next_rid = 1
    /\ hub_returned = {}
    /\ EnvInit

ring_create(size) ==
    /\ "r" \notin DOMAIN sessions
    /\ sessions' = sessions @@ ("r" :> SessionContext("r", "mcp-agent", size))
    /\ UNCHANGED <<pol, classifier, task, nmsgs, next_rid, hub_returned, envVars>>

ring_push(content) ==
    /\ "r" \in DOMAIN sessions
    /\ nmsgs < MaxPushes
    /\ sessions' = [sessions EXCEPT !["r"] = push_message(@, "agent", content)]
    /\ nmsgs' = nmsgs + 1
    /\ UNCHANGED <<pol, classifier, task, next_rid, hub_returned, envVars>>

RingNext ==
    \/ \E size \in session_ring_buffer_size : ring_create(size)
    \/ \E content \in RingContents : ring_push(content)

RingSpec == RingInit /\ [][RingNext]_vars

(***************************************************************************)
(* ws_handler.py: the escalation side of DashboardHub.  No transport calls *)
(* request_human_verdict, so its caller here is any task that makes the    *)
(* call once per request id.  The call suspends in                         *)
(* asyncio.wait_for(future, timeout) and is resumed by the future's        *)
(* result, by the deadline, or by the cancellation of its task.            *)
(***************************************************************************)
HubActions == {"block", "allow", "deny", None}

HubCommandIds == HubRids \cup {"r9", None}

HubInit ==
    /\ pol = PolIdle
    /\ classifier = "mock"
    /\ sessions = EmptyMap
    /\ task = [t \in TaskIds |-> IdleTask]
    /\ nmsgs = 0
    /\ next_rid = 1
    /\ hub_returned = {}
    /\ EnvInit

hubFrame ==
    <<pol, classifier, sessions, task, nmsgs, next_rid, now, gc_swept, clients, held,
      ruleVars, pumps, call>>

\* request_human_verdict up to its await: the future is created and stored.
request_human_verdict(request_id) ==
    /\ waiter[request_id] = "idle"
    /\ futures' = [futures EXCEPT ![request_id] = "pending"]
    /\ pending' = [r \in DOMAIN pending \cup {request_id} |->
                      IF r = request_id THEN request_id ELSE pending[r]]
    /\ waiter' = [waiter EXCEPT ![request_id] = "waiting"]
    /\ UNCHANGED <<hub_returned, hubFrame>>

\* The awaited future has a result: wait_for returns it.
request_human_verdict_returns(request_id) ==
    /\ waiter[request_id] = "waiting"
    /\ futures[request_id] \in Verdict
    /\ waiter' = [waiter EXCEPT ![request_id] = "returned"]
    /\ hub_returned' = hub_returned \cup {<<request_id, futures[request_id]>>}
    /\ UNCHANGED <<pending, futures, hubFrame>>

\* The deadline handler without its pop.
request_human_verdict_timeout_keeps(request_id) ==
    /\ waiter[request_id] = "waiting"
    /\ futures' = [futures EXCEPT ![request_id] =
                      IF @ = "pending" THEN "cancelled" ELSE @]
    /\ waiter' = [waiter EXCEPT ![request_id] = "returned"]
    /\ hub_returned' = hub_returned \cup {<<request_id, "BLOCK">>}
    /\ UNCHANGED <<pending, hubFrame>>

\* The deadline passes: wait_for cancels the future and raises TimeoutError;
\* the handler pops the entry and returns BLOCK.  With a future resolved in
\* the same loop iteration the interpreter decides: wait_for of CPython 3.11
\* returns the result (request_human_verdict_returns), asyncio.timeout of
\* 3.12 still raises TimeoutError.
request_human_verdict_timeout(request_id) ==
    /\ waiter[request_id] = "waiting"
    /\ futures' = [futures EXCEPT ![request_id] =
                      IF @ = "pending" THEN "cancelled" ELSE @]
    /\ pending' = [r \in DOMAIN pending \ {request_id} |-> pending[r]]
    /\ waiter' = [waiter EXCEPT ![request_id] = "returned"]
    /\ hub_returned' = hub_returned \cup {<<request_id, "BLOCK">>}
    /\ UNCHANGED hubFrame

\* The awaiting task is cancelled: CancelledError is no TimeoutError, so it
\* leaves request_human_verdict past the handler and nothing is popped.
\* With a future already resolved, wait_for of CPython 3.11 returns the
\* result and 3.12 raises CancelledError.
request_human_verdict_cancelled(request_id, returns_result) ==
    /\ waiter[request_id] = "waiting"
    /\ returns_result => futures[request_id] \in Verdict
    /\ futures' = [futures EXCEPT ![request_id] =
                      IF @ = "pending" THEN "cancelled" ELSE @]
    /\ waiter' = [waiter EXCEPT ![request_id] =
                     IF returns_result THEN "returned" ELSE "cancelled"]
    /\ hub_returned' = IF returns_result
                       THEN hub_returned \cup {<<request_id, futures[request_id]>>}
                       ELSE hub_returned
    /\ UNCHANGED <<pending, hubFrame>>

\* _client_receiver with the two verdicts exchanged.
client_receiver_exchanged(action, request_id) ==
    IF action # None /\ request_id # None /\ request_id \in DOMAIN pending
    THEN LET verdict == IF action = "block" THEN "ALLOW" ELSE "BLOCK"
             future == pending[request_id]
         IN  /\ pending' = [r \in DOMAIN pending \ {request_id} |-> pending[r]]
             /\ futures' = [futures EXCEPT ![future] =
                               IF @ = "pending" THEN verdict ELSE @]
             /\ UNCHANGED <<waiter, hub_returned, hubFrame>>
    ELSE UNCHANGED vars

\* One pass of the _client_receiver loop over a JSON object (text that is
\* not one raises and is logged: no change).
_client_receiver(action, request_id) ==
    IF action # None /\ request_id # None /\ request_id \in DOMAIN pending
    THEN LET verdict == IF action = "block" THEN "BLOCK" ELSE "ALLOW"
             future == pending[request_id]
         IN  /\ pending' = [r \in DOMAIN pending \ {request_id} |-> pending[r]]
             /\ futures' = [futures EXCEPT ![future] =
                               IF @ = "pending" THEN verdict ELSE @]
             /\ UNCHANGED <<waiter, hub_returned, hubFrame>>
    ELSE UNCHANGED vars

HubNext ==
    \/ \E request_id \in HubRids : request_human_verdict(request_id)
    \/ \E request_id \in HubRids : request_human_verdict_returns(request_id)
    \/ \E request_id \in HubRids : request_human_verdict_timeout(request_id)
    \/ \E request_id \in HubRids, returns_result \in BOOLEAN :
          request_human_verdict_cancelled(request_id, returns_result)
    \/ \E action \in HubActions, request_id \in HubCommandIds :
          _client_receiver(action, request_id)

HubSpec == HubInit /\ [][HubNext]_vars

(***************************************************************************)
(* The event loop runs a ready task and fires a due timer: a call whose    *)
(* future has a result returns, and a waiting call meets its deadline.     *)
(* Nothing obliges an operator to send a command.                          *)
(***************************************************************************)
HubFairSpec ==
    /\ HubSpec
    /\ \A request_id \in HubRids :
          /\ WF_vars(request_human_verdict_returns(request_id))
          /\ WF_vars(request_human_verdict_timeout(request_id))

(***************************************************************************)
(* ws_handler.py: the broadcast side of DashboardHub.  A client's queue is *)
(* asyncio.Queue(maxsize=_CLIENT_BUFFER_SIZE); an event is named by its    *)
(* serial number, nmsgs counting the events broadcast so far.  broadcast   *)
(* has no await, so it is one step.                                        *)
(***************************************************************************)
_CLIENT_BUFFER_SIZE == 2

MaxEvents == 7

ClientIds == {"c1", "c2"}

BroadcastInit ==
    /\ pol = PolIdle
    /\ classifier = "mock"
    /\ sessions = EmptyMap
    /\ task = [t \in TaskIds |-> IdleTask]
    /\ nmsgs = 0
    /\ next_rid = 1
    /\ hub_returned = {}
    /\ EnvInit

broadcastFrame ==
    <<pol, classifier, sessions, task, next_rid, hub_returned, now, gc_swept, pending,
      futures, waiter, held, ruleVars, pumps, call>>

connect(client_id) ==
    /\ client_id \notin DOMAIN clients
    /\ clients' = clients @@ (client_id :> <<>>)
    /\ UNCHANGED <<nmsgs, broadcastFrame>>

disconnect(client_id) ==
    /\ client_id \in DOMAIN clients
    /\ clients' = [c \in DOMAIN clients \ {client_id} |-> clients[c]]
    /\ UNCHANGED <<nmsgs, broadcastFrame>>

\* asyncio.Queue.put_nowait: <<raised QueueFull, queue after>>.
put_nowait(queue, data) ==
    IF Len(queue) >= _CLIENT_BUFFER_SIZE THEN <<TRUE, queue>>
    ELSE <<FALSE, Append(queue, data)>>

\* broadcast whose QueueFull handler only counts the drop.
broadcast_keeps_oldest ==
    /\ nmsgs < MaxEvents
    /\ nmsgs' = nmsgs + 1
    /\ clients' = [c \in DOMAIN clients |-> put_nowait(clients[c], nmsgs + 1)[2]]
    /\ UNCHANGED broadcastFrame

broadcast ==
    /\ nmsgs < MaxEvents
    /\ nmsgs' = nmsgs + 1
    /\ clients' = [c \in DOMAIN clients |->
                      LET data == nmsgs + 1
                          first == put_nowait(clients[c], data)
                      IN  IF ~first[1] THEN first[2]
                          ELSE IF clients[c] = <<>> THEN clients[c]
                          ELSE put_nowait(Tail(clients[c]), data)[2]]
    /\ UNCHANGED broadcastFrame

\* _client_sender: one queue.get() and the send of what it returned.
_client_sender(client_id) ==
    /\ client_id \in DOMAIN clients
    /\ clients[client_id] # <<>>
    /\ clients' = [clients EXCEPT ![client_id] = Tail(@)]
    /\ UNCHANGED <<nmsgs, broadcastFrame>>

BroadcastNext ==
    \/ \E client_id \in ClientIds : connect(client_id)
    \/ \E client_id \in ClientIds : disconnect(client_id)
    \/ broadcast
    \/ \E client_id \in ClientIds : _client_sender(client_id)

BroadcastSpec == BroadcastInit /\ [][BroadcastNext]_vars

(***************************************************************************)
(* The HTTP POST path with callbacks that may raise: the audit logger's    *)
(* write and the hub's broadcast are awaited inside try/except Exception.  *)
(***************************************************************************)
FaultPayloads == {"res_read", "rm_rf", "traversal", "ignore_prev", "sudo", "blob"}

FaultNext ==
    \/ \E t \in TaskIds, sid \in PostSessionIds, pn \in FaultPayloads :
          \E seen \in Seen(sid) : handle_post(t, sid, pn, FALSE, seen)
    \/ \E t \in TaskIds, reply \in Replies(classifier) :
          \E seen \in Seen(task[t].sid) : intercept_and_analyze_l2(t, reply, FALSE, seen)
    \/ \E t \in TaskIds, audit_raises \in BOOLEAN, event_raises \in BOOLEAN :
          intercept_and_analyze_emit(t, audit_raises, event_raises)

FaultSpec == Init /\ [][FaultNext]_vars

(***************************************************************************)
(* session_manager.py: the store under the clock.  Time passes; a          *)
(* transport fetches a session (get_or_create) or pushes to one; the       *)
(* sweeper wakes and, holding its lock, runs one sweep with no await       *)
(* inside it.                                                              *)
(***************************************************************************)
session_ttl_seconds == 2

MaxTime == 4

SweepSessionIds == {"a", "b"}

SweepInit ==
    /\ pol = PolIdle
    /\ classifier = "mock"
    /\ sessions = EmptyMap
    /\ task = [t \in TaskIds |-> IdleTask]
    /\ nmsgs = 0
    /\ next_rid = 1
    /\ hub_returned = {}
    /\ EnvInit

sweepFrame ==
    <<pol, classifier, task, nmsgs, next_rid, hub_returned, pending, futures, waiter,
      clients, ruleVars, pumps, call>>

tick ==
    /\ now < MaxTime
    /\ now' = now + 1
    /\ UNCHANGED <<sessions, gc_swept, held, sweepFrame>>

sweep_get_or_create(session_id) ==
    /\ sessions' = get_or_create(sessions, session_id, "http-agent")
    /\ UNCHANGED <<now, gc_swept, held, sweepFrame>>

sweep_push_message(session_id) ==
    /\ session_id \in DOMAIN sessions
    /\ sessions' = [sessions EXCEPT ![session_id] =
                       push_message(@, "agent", [method |-> "ping"])]
    /\ UNCHANGED <<now, gc_swept, held, sweepFrame>>

\* The default agent_id, as test_create_and_retrieve fetches a session.
sweep_get_or_create_default(session_id) ==
    /\ sessions' = get_or_create(sessions, session_id, "")
    /\ UNCHANGED <<now, gc_swept, held, sweepFrame>>

\* SessionManager.get: a lookup; the caller keeps what it returned.
sweep_get(session_id) ==
    /\ call' = [stage |-> "out", arg |-> <<session_id>>, out |-> get(sessions, session_id)]
    /\ UNCHANGED <<sessions, now, gc_swept, held, pol, classifier, task, nmsgs, next_rid,
                   hub_returned, pending, futures, waiter, clients, ruleVars, pumps>>

\* del self._sessions[sid] drops the store's reference only: an object a
\* connection handler still holds lives on, outside the store.
Unregistered(h, expired) ==
    IF h.evicted = <<>> /\ h.session_id \in expired
    THEN [h EXCEPT !.evicted = <<sessions[h.session_id]>>]
    ELSE h

\* One sweep that also removes a session whose age equals the TTL.
gc_loop_inclusive ==
    LET expired == {sid \in DOMAIN sessions :
                       (now - sessions[sid].last_active) >= session_ttl_seconds}
    IN  /\ sessions' = [sid \in DOMAIN sessions \ expired |-> sessions[sid]]
        /\ gc_swept' = gc_swept + Cardinality(expired)
        /\ held' = [c \in DOMAIN held |-> Unregistered(held[c], expired)]
        /\ UNCHANGED <<now, sweepFrame>>

_gc_loop ==
    LET expired == {sid \in DOMAIN sessions :
                       (now - sessions[sid].last_active) > session_ttl_seconds}
    IN  /\ sessions' = [sid \in DOMAIN sessions \ expired |-> sessions[sid]]
        /\ gc_swept' = gc_swept + Cardinality(expired)
        /\ held' = [c \in DOMAIN held |-> Unregistered(held[c], expired)]
        /\ UNCHANGED <<now, sweepFrame>>

SweepNext ==
    \/ tick
    \/ \E session_id \in SweepSessionIds : sweep_get_or_create(session_id)
    \/ \E session_id \in SweepSessionIds : sweep_push_message(session_id)
    \/ \E session_id \in SweepSessionIds : sweep_get_or_create_default(session_id)
    \/ \E session_id \in SweepSessionIds : sweep_get(session_id)
    \/ _gc_loop

SweepSpec == SweepInit /\ [][SweepNext]_vars

(***************************************************************************)
(* sse_adapter.py, stdio_adapter.py: long-lived connections over the       *)
(* store under the clock.  handle_websocket, StdioAdapter.run and          *)
(* handle_sse call get_or_create once, when the connection starts, and     *)
(* hand the SessionContext they got to every interception of the           *)
(* connection.  held[c].evicted is <<>> while that object is the one in    *)
(* the store, and holds the object once the sweeper has dropped it.        *)
(***************************************************************************)
MaxConnMsgs == 2

ConnIds == {"ws", "stdio", "sse"}

ConnSessionId(c) ==
    CASE c = "ws" -> "ws-1" [] c = "stdio" -> "stdio-1" [] c = "sse" -> "sse-default"

ConnAgentId(c) ==
    CASE c = "ws" -> "ws-agent" [] c = "stdio" -> "stdio-agent" [] c = "sse" -> "sse-agent"

Hold(c) ==
    /\ c \notin DOMAIN held
    /\ sessions' = get_or_create(sessions, ConnSessionId(c), ConnAgentId(c))
    /\ held' = held @@ (c :> [session_id |-> ConnSessionId(c), evicted |-> <<>>,
                              received |-> 0])
    /\ UNCHANGED <<now, gc_swept, sweepFrame>>

handle_websocket == Hold("ws")

run == Hold("stdio")

handle_sse == Hold("sse")

\* One message of the connection goes through intercept_and_analyze with the
\* held session; the interception appends to that object (here a ping).
held_intercept(c) ==
    /\ c \in DOMAIN held
    /\ held[c].received < MaxConnMsgs
    /\ IF held[c].evicted = <<>>
       THEN /\ sessions' = [sessions EXCEPT ![held[c].session_id] =
                               push_message(@, "agent", [method |-> "ping"])]
            /\ held' = [held EXCEPT ![c].received = @ + 1]
       ELSE /\ sessions' = sessions
            /\ held' = [held EXCEPT ![c].received = @ + 1,
                                    ![c].evicted = <<push_message(@[1], "agent",
                                                                  [method |-> "ping"])>>]
    /\ UNCHANGED <<now, gc_swept, sweepFrame>>

ConnNext ==
    \/ tick
    \/ handle_websocket
    \/ run
    \/ handle_sse
    \/ \E c \in ConnIds : held_intercept(c)
    \/ sweep_get_or_create("ws-1")
    \/ _gc_loop

ConnSpec == SweepInit /\ [][ConnNext]_vars

(***************************************************************************)
(* main.py: the rule set under change.  AppState.reload_config builds a    *)
(* new StaticAnalyzer when blocked_commands is among the updates, binds it *)
(* to AppState.static_analyzer and to the attribute static_analyzer of     *)
(* both adapters; the /api/rules handlers call add_rule and remove_rule on *)
(* AppState.static_analyzer.  The adapters' handlers pass self._l1 to      *)
(* intercept_and_analyze, which runs L1 before its first await.            *)
(***************************************************************************)
MaxAnalyzers == 3

MaxIntercepts == 2

RulePatterns == {"rm -rf", "/etc/passwd"}

RulePayloads == {"rm_rf", "traversal"}

reload_config(updates) ==
    /\ Len(analyzers) < MaxAnalyzers
    /\ analyzers' = Append(analyzers, StaticAnalyzer_init(updates))
    /\ l1_refs' = [h \in DOMAIN l1_refs \cup {"sse.static_analyzer", "ws.static_analyzer"}
                      |-> IF h \in {"app", "sse.static_analyzer", "ws.static_analyzer"}
                          THEN Len(analyzers) + 1 ELSE l1_refs[h]]
    /\ UNCHANGED <<sessions, now, gc_swept, held, l1_log, pol, classifier, task, nmsgs,
                   next_rid, hub_returned, pending, futures, waiter, clients,
                   pumps, call>>

add_rule(pattern) ==
    /\ analyzers' = [analyzers EXCEPT ![l1_refs["app"]] =
                        StaticAnalyzer_add_rule(@, pattern)]
    /\ UNCHANGED <<sessions, now, gc_swept, held, l1_refs, l1_log, pol, classifier, task,
                   nmsgs, next_rid, hub_returned, pending, futures, waiter, clients,
                   pumps, call>>

remove_rule(pattern) ==
    /\ analyzers' = [analyzers EXCEPT ![l1_refs["app"]] =
                        StaticAnalyzer_remove_rule(@, pattern)]
    /\ UNCHANGED <<sessions, now, gc_swept, held, l1_refs, l1_log, pol, classifier, task,
                   nmsgs, next_rid, hub_returned, pending, futures, waiter, clients,
                   pumps, call>>

\* The L1 step of an interception on an adapter's handler: handle_post and
\* _sanitize_sse_event on the SSE adapter, _agent_to_server on the WebSocket
\* adapter.
l1_intercept(holder, pn) ==
    /\ Len(l1_log) < MaxIntercepts
    /\ l1_log' = Append(l1_log,
                        [holder |-> holder, payload |-> pn,
                         l1 |-> StaticAnalyzer_analyze(analyzers[l1_refs[holder]],
                                                       PayloadOf[pn])])
    /\ UNCHANGED <<sessions, now, gc_swept, held, analyzers, l1_refs, pol, classifier,
                   task, nmsgs, next_rid, hub_returned, pending, futures, waiter, clients,
                   pumps, call>>

ReloadNext ==
    \/ \E updates \in SUBSET RulePatterns : reload_config(updates)
    \/ \E pattern \in RulePatterns : add_rule(pattern)
    \/ \E pattern \in RulePatterns : remove_rule(pattern)
    \/ \E holder \in {"sse._l1", "ws._l1"}, pn \in RulePayloads : l1_intercept(holder, pn)

ReloadSpec == SweepInit /\ [][ReloadNext]_vars

(***************************************************************************)
(* sse_adapter.py: WebSocketAdapter.handle_websocket and its two pumps.    *)
(* asyncio.gather awaits both pumps; it returns when both have returned    *)
(* and raises as soon as one raises.  _agent_to_server catches             *)
(* WebSocketDisconnect and returns; _server_to_agent catches every         *)
(* Exception and returns.  up, down and replies count the messages sent    *)
(* upstream, sent to the agent and answered with a blocking response.      *)
(***************************************************************************)
MaxPumpMsgs == 3

pumpFrame ==
    <<pol, classifier, sessions, task, nmsgs, next_rid, hub_returned, now, gc_swept,
      pending, futures, waiter, clients, held, ruleVars, call>>

\* The agent sends a message: receive_text returns, the message is
\* intercepted and sent upstream or answered; upstream.send on a closed
\* upstream raises ConnectionClosed, which the pump does not catch.
ws_agent_message(blocked) ==
    /\ pumps.client = "open" /\ pumps.a2s = "running"
    /\ pumps.up + pumps.replies < MaxPumpMsgs
    /\ pumps' = IF blocked THEN [pumps EXCEPT !.replies = @ + 1]
                ELSE IF pumps.upstream = "open" THEN [pumps EXCEPT !.up = @ + 1]
                ELSE [pumps EXCEPT !.a2s = "raised"]
    /\ UNCHANGED pumpFrame

\* The agent side goes away.
ws_agent_disconnect ==
    /\ pumps.client = "open"
    /\ pumps' = [pumps EXCEPT !.client = "closed"]
    /\ UNCHANGED pumpFrame

\* _agent_to_server: receive_text raises WebSocketDisconnect; except: pass.
ws_agent_to_server_disconnected ==
    /\ pumps.client = "closed" /\ pumps.a2s = "running"
    /\ pumps' = [pumps EXCEPT !.a2s = "returned"]
    /\ UNCHANGED pumpFrame

\* The upstream sends a message: _server_to_agent forwards it; send_text to
\* an agent that is gone raises, and except Exception: pass ends the pump.
ws_upstream_message ==
    /\ pumps.upstream = "open" /\ pumps.s2a = "running"
    /\ pumps.client = "open" => pumps.down < MaxPumpMsgs
    /\ pumps' = IF pumps.client = "open" THEN [pumps EXCEPT !.down = @ + 1]
                ELSE [pumps EXCEPT !.s2a = "returned"]
    /\ UNCHANGED pumpFrame

\* The upstream closes its side.
ws_upstream_close ==
    /\ pumps.upstream = "open" /\ pumps.handler = "gather"
    /\ pumps' = [pumps EXCEPT !.upstream = "closed"]
    /\ UNCHANGED pumpFrame

\* _server_to_agent: the iteration over a closed upstream ends.
ws_server_to_agent_ends ==
    /\ pumps.upstream = "closed" /\ pumps.s2a = "running"
    /\ pumps' = [pumps EXCEPT !.s2a = "returned"]
    /\ UNCHANGED pumpFrame

\* handle_websocket: gather is over; leaving the async with closes the
\* upstream and the finally clause closes the agent's socket.
ws_gather_done ==
    /\ pumps.handler = "gather"
    /\ \/ pumps.a2s = "raised"
       \/ pumps.a2s = "returned" /\ pumps.s2a = "returned"
    /\ pumps' = [pumps EXCEPT !.handler = "closed", !.upstream = "closed",
                              !.client = "closed"]
    /\ UNCHANGED pumpFrame

PumpNext ==
    \/ \E blocked \in BOOLEAN : ws_agent_message(blocked)
    \/ ws_agent_disconnect
    \/ ws_agent_to_server_disconnected
    \/ ws_upstream_message
    \/ ws_upstream_close
    \/ ws_server_to_agent_ends
    \/ ws_gather_done

PumpSpec == SweepInit /\ [][PumpNext]_vars

\* The event loop runs every task that is ready; what the agent and the
\* upstream do is up to them.
PumpFairSpec ==
    /\ PumpSpec
    /\ WF_vars(ws_agent_to_server_disconnected)
    /\ WF_vars(ws_server_to_agent_ends)
    /\ WF_vars(ws_gather_done)

(***************************************************************************)
(* semantic_analyzer.py: LlmClassifier.classify on its own, over every     *)
(* answer the model can give: each JSON text for is_injection with each    *)
(* for confidence, and the failure classes.                                *)
(***************************************************************************)
LlmAnswers ==
    {[kind |-> "answer", is_injection |-> b, confidence |-> c] :
        b \in {"true", "false", "\"false\"", "null", "1", ""},
        c \in JsonNumbers \cup {"", "\"0.9\"", "\"high\""}}
    \cup {[kind |-> k, is_injection |-> "", confidence |-> ""] : k \in LlmFailures}

CallInit(args) ==
    /\ call \in [stage : {"in"}, arg : args, out : {<<>>}]
    /\ pol = PolIdle
    /\ classifier = "mock"
    /\ sessions = EmptyMap
    /\ task = [t \in TaskIds |-> IdleTask]
    /\ nmsgs = 0
    /\ next_rid = 1
    /\ hub_returned = {}
    /\ EnvRest

callFrame ==
    <<pol, classifier, sessions, task, nmsgs, next_rid, hub_returned, now, gc_swept,
      pending, futures, waiter, clients, held, ruleVars, pumps>>

llm_classify_call ==
    /\ call.stage = "in"
    /\ call' = [call EXCEPT !.stage = "out", !.out = <<LlmClassifier_classify(call.arg)>>]
    /\ UNCHANGED callFrame

ClassifyInit == CallInit(LlmAnswers)

ClassifyNext == llm_classify_call

ClassifySpec == ClassifyInit /\ [][ClassifyNext]_vars

(***************************************************************************)
(* semantic_analyzer.py: MockClassifier.classify on its own, over params   *)
(* with and without markers and over session contexts of up to MaxContext  *)
(* messages of which at most one, at any position, carries a marker in its *)
(* params preview.                                                         *)
(***************************************************************************)
MaxContext == 12

MockPayloads == {"benign_call", "sudo", "ignore_prev"}

ContextMessage(pn) ==
    [role |-> "agent",
     content |-> [method |-> PayloadOf[pn].method, params_preview |-> pn,
                  verdict |-> "ALLOW"]]

MockContexts ==
    {[i \in 1..n |-> ContextMessage(IF i = j THEN pn ELSE "benign_call")] :
        n \in 0..MaxContext, j \in 0..MaxContext, pn \in {"sudo", "ignore_prev"}}

MockInit == CallInit([params : MockPayloads, session_context : MockContexts])

mock_classify_call ==
    /\ call.stage = "in"
    /\ call' = [call EXCEPT !.stage = "out",
                            !.out = <<MockClassifier_classify(PayloadOf[call.arg.params],
                                                              call.arg.session_context)>>]
    /\ UNCHANGED callFrame

MockNext == mock_classify_call

MockSpec == MockInit /\ [][MockNext]_vars

(***************************************************************************)
(* static_analyzer.py: StaticAnalyzer.analyze on its own, with the default *)
(* rule set, over texts that hold a blocked literal or none, up to two of  *)
(* the structural patterns, and a base-64 run that decodes to a blocked    *)
(* literal, to something harmless, or no run at all.                       *)
(***************************************************************************)
L1Texts ==
    {Payload(TRUE, "tools/call", "1", lits, rx, b64_lits, {}, {}, FALSE) :
        lits \in SUBSET {"rm -rf", "ls -l"},
        rx \in {d \in SUBSET {REGEX_BATTERY[i].name : i \in 1..Len(REGEX_BATTERY)} :
                   Cardinality(d) <= 2},
        b64_lits \in {{}, {"rm -rf"}, {"ls -l"}}}

L1Init == CallInit(L1Texts)

l1_analyze_call ==
    /\ call.stage = "in"
    /\ call' = [call EXCEPT !.stage = "out",
                            !.out = <<StaticAnalyzer_analyze(analyzers[l1_refs["app"]],
                                                             call.arg)>>]
    /\ UNCHANGED callFrame

L1Next == l1_analyze_call

L1Spec == L1Init /\ [][L1Next]_vars

(***************************************************************************)
(* Two sessions under a moving clock: the POST endpoint's session and the  *)
(* WebSocket connection's, the deterministic substitute as L2, and         *)
(* interceptor.py's intercept_and_analyze called on either while time      *)
(* passes between and during the calls.                                    *)
(***************************************************************************)
FramePayloads == {"malformed", "ping_inj", "rm_rf", "ignore_prev", "sudo", "deep"}

FrameNext ==
    \/ \E t \in TaskIds, sid \in PostSessionIds, pn \in FramePayloads :
          \E str_raises \in Raises(pn), seen \in Seen(sid) :
             handle_post(t, sid, pn, str_raises, seen)
    \/ \E t \in TaskIds, pn \in FramePayloads :
          \E str_raises \in Raises(pn), seen \in Seen("ws-1") :
             _agent_to_server(t, pn, str_raises, seen)
    \/ \E t \in TaskIds, reply \in Replies(classifier) :
          \E str_raises \in Raises(task[t].payload), seen \in Seen(task[t].sid) :
             intercept_and_analyze_l2(t, reply, str_raises, seen)
    \/ \E t \in TaskIds : intercept_and_analyze_emit(t, FALSE, FALSE)
    \/ tick

FrameSpec == SweepInit /\ [][FrameNext]_vars

(***************************************************************************)
(* Properties.                                                             *)
(***************************************************************************)
Mcp == {"post", "ws", "stdio", "sse"}

Returned(r) == r.transport \in Mcp /\ r.outcome = "returned"

LevelRank(level) ==
    CASE level = "NONE" -> 0 [] level = "LOW" -> 1 [] level = "MEDIUM" -> 2
      [] level = "HIGH" -> 3 [] level = "CRITICAL" -> 4

\* C1: on the HTTP POST, WebSocket agent-to-server and stdio agent-to-server
\* paths, a message for which the Interceptor returned a blocking response is
\* not sent upstream, and the agent is sent the serialized blocking response,
\* with HTTP status 403 on POST.
C1_BlockedNeverForwarded ==
    \A t \in TaskIds :
        LET r == task[t] IN
        (r.transport \in {"post", "ws", "stdio"} /\ r.pc = "done"
            /\ r.outcome = "returned" /\ r.response # <<>>)
        => /\ ~r.forwarded
           /\ r.reply # <<>>
           /\ r.reply[1].body = <<to_bytes(r.response[1])>>
           /\ (r.transport = "post" => r.reply[1].status = 403)

C1_Witness ==
    \E t \in TaskIds :
        /\ task[t].transport = "post" /\ task[t].pc = "done"
        /\ task[t].response # <<>>
        /\ task[t].response[1].error.code = -32001
        /\ task[t].reply # <<>> /\ task[t].reply[1].status = 403
        /\ ~task[t].forwarded

\* C2: a message whose verdict is ESCALATE is forwarded upstream only after
\* the Escalation Hub has returned a human ALLOW for it.
C2_EscalateWaitsForHub ==
    \A t \in TaskIds :
        LET r == task[t] IN
        (r.transport \in Mcp /\ r.forwarded /\ r.analysis # <<>>
            /\ r.analysis[1].verdict = "ESCALATE")
        => <<r.analysis[1].request_id, "ALLOW">> \in hub_returned

\* C3: for every L1 level, L2 is_injection and L2 confidence in [0,1], the
\* policy function returns the verdict of the decision table read top to
\* bottom; a confidence of exactly 0.70, 0.80 or 0.90 takes the >= branch.
DecisionTable(level, is_injection, confidence) ==
    CASE level = "CRITICAL" -> "BLOCK"
      [] level = "HIGH" /\ is_injection /\ confidence >= 70 -> "BLOCK"
      [] level = "HIGH" /\ ~(is_injection /\ confidence >= 70) -> "ESCALATE"
      [] level = "MEDIUM" /\ is_injection /\ confidence >= 80 -> "BLOCK"
      [] level = "MEDIUM" /\ is_injection /\ confidence < 80 -> "ESCALATE"
      [] level = "MEDIUM" /\ ~is_injection -> "ALLOW"
      [] level \in {"LOW", "NONE"} /\ is_injection /\ confidence >= 90 -> "BLOCK"
      [] level \in {"LOW", "NONE"} /\ is_injection /\ confidence >= 70
            /\ confidence < 90 -> "ESCALATE"
      [] level \in {"LOW", "NONE"} /\ ~(is_injection /\ confidence >= 70) -> "ALLOW"

C3_PolicyIsDecisionTable ==
    pol.stage = "out"
    => pol.out[1].verdict
          = DecisionTable(pol.l1.threat_level, pol.l2.is_injection, pol.l2.confidence)

C3_Witness ==
    /\ pol.stage = "out"
    /\ pol.l1.threat_level = "HIGH" /\ pol.l2.is_injection /\ pol.l2.confidence = 70
    /\ pol.out[1].verdict = "BLOCK"

C6_RaisedNeverForwarded ==
    \A t \in TaskIds :
        LET r == task[t] IN
        (r.transport \in Mcp /\ r.outcome = "raised"
            /\ PayloadOf[r.payload].method \notin SAFE_METHODS)
        => ~r.forwarded

\* C7: every inbound request a proxy adapter forwards upstream, the
\* OpenAI-compatible chat-completions endpoint included, has been passed
\* through intercept_and_analyze and so has an AnalysisResult and a session
\* entry.
C7_ForwardedWasIntercepted ==
    \A t \in TaskIds :
        LET r == task[t] IN
        (r.forwarded /\ r.transport \in {"post", "ws", "stdio", "openai"})
        => /\ r.calls = 1
           /\ r.outcome = "returned" /\ r.analysis # <<>>
           /\ r.sid \in DOMAIN sessions

\* C8: a transport calls the Interceptor exactly once per inbound message,
\* the call returns exactly one AnalysisResult with one verdict, and for a
\* well-formed message whose method is not in the safe set the audit callback
\* and the operator-event callback are each invoked exactly once.
C8_ExactlyOnce ==
    \A t \in TaskIds :
        LET r == task[t]
            p == PayloadOf[r.payload]
        IN  (r.transport \in Mcp /\ r.pc \in {"done", "dead"})
            => /\ r.calls = 1
               /\ r.outcome = "returned"
               /\ r.analysis # <<>> /\ r.analysis[1].verdict \in Verdict
               /\ (p.wf /\ p.method \notin SAFE_METHODS
                     => r.audits = 1 /\ r.events = 1)

\* C9 as stated: for every interception call the final verdict is ALLOW if
\* and only if no synthetic blocking response is produced.
C9_AllowIffNoResponse ==
    \A t \in TaskIds :
        Returned(task[t])
        => (task[t].analysis[1].verdict = "ALLOW" <=> task[t].response = <<>>)

\* C9 amended: for every interception call that returns, no blocking response
\* is produced if and only if the final verdict is ALLOW or ESCALATE.
C9_NoResponseIffAllowOrEscalate ==
    \A t \in TaskIds :
        Returned(task[t])
        => (task[t].response = <<>>
               <=> task[t].analysis[1].verdict \in {"ALLOW", "ESCALATE"})

C9_Witness ==
    \E t \in TaskIds :
        /\ Returned(task[t])
        /\ task[t].analysis[1].verdict = "ESCALATE"
        /\ task[t].response = <<>>

\* C10: the threat_level of every AnalysisResult the Interceptor produces is
\* the maximum of the L1 level and the level derived from L2 under
\* NONE < LOW < MEDIUM < HIGH < CRITICAL, hence at least either of them.
C10_ThreatLevelIsMax ==
    \A t \in TaskIds :
        LET r == task[t]
            a == r.analysis[1]
            l1_level == IF r.l1 = <<>> THEN "NONE" ELSE r.l1[1].threat_level
            l2_level == IF r.l2 = <<>> THEN "NONE" ELSE r.l2[1].threat_level
        IN  (r.transport \in Mcp /\ r.analysis # <<>>)
            => /\ a.threat_level \in {l1_level, l2_level}
               /\ LevelRank(a.threat_level) >= LevelRank(l1_level)
               /\ LevelRank(a.threat_level) >= LevelRank(l2_level)
               /\ a.l1_threat_level = l1_level

C10_Witness ==
    \E t \in TaskIds :
        /\ Returned(task[t])
        /\ task[t].l1 # <<>> /\ task[t].l1[1].threat_level = "MEDIUM"
        /\ task[t].l2 # <<>> /\ task[t].l2[1].threat_level = "HIGH"
        /\ task[t].analysis[1].threat_level = "HIGH"

\* C11: for a well-formed message whose method is in the safe set, whatever
\* its params hold, the Interceptor returns ALLOW with threat level NONE and
\* no blocking response, calls neither L1 nor L2, and appends exactly one
\* entry to the buffer of the message's session.
SafeSet ==
    {"initialize", "initialized", "ping", "tools/list", "resources/list",
     "resources/templates/list", "prompts/list", "logging/setLevel"}

AppendedOne(old, new, entry, max) ==
    LET app == Append(old, entry) IN
    new = IF Len(app) > max THEN SubSeq(app, Len(app) - max + 1, Len(app)) ELSE app

C11_SafeMethodFastPath ==
    [][\A t \in TaskIds :
          (nmsgs' = nmsgs + 1 /\ task'[t].msg = nmsgs' /\ task'[t].transport \in Mcp
              /\ PayloadOf[task'[t].payload].wf
              /\ PayloadOf[task'[t].payload].method \in SafeSet)
          => /\ task'[t].outcome = "returned"
             /\ task'[t].analysis # <<>>
             /\ task'[t].analysis[1].verdict = "ALLOW"
             /\ task'[t].analysis[1].threat_level = "NONE"
             /\ task'[t].response = <<>>
             /\ task'[t].l1_calls = 0 /\ task'[t].l2_calls = 0
             /\ \A sid \in DOMAIN sessions' :
                   LET old == IF sid \in DOMAIN sessions THEN sessions[sid].messages
                              ELSE <<>>
                   IN  IF sid = task'[t].sid
                       THEN AppendedOne(old, sessions'[sid].messages,
                               [role |-> "agent",
                                content |-> [method |-> PayloadOf[task'[t].payload].method,
                                             params_preview |-> None, verdict |-> None]],
                               BufSize)
                       ELSE sessions'[sid].messages = old
      ]_vars

C11_Witness ==
    \E t \in TaskIds :
        /\ Returned(task[t]) /\ task[t].payload = "ping_inj"
        /\ task[t].msg = 2
        /\ task[t].analysis[1].verdict = "ALLOW"
        /\ Len(sessions[task[t].sid].messages) = 2
        /\ sessions[task[t].sid].messages[2].content.method = "ping"

\* C12: after any sequence of push_message calls on a session, for any
\* max_messages value the configuration can supply, the length of the
\* session's buffer is at most max_messages.
C12_BufferBounded ==
    \A sid \in DOMAIN sessions :
        Len(sessions[sid].messages) <= sessions[sid].max_messages

\* C13: for the messages of one session, session-buffer appends occur in the
\* order in which the messages arrived at the transport, also when several
\* interception calls for that session are in flight at once (concurrent
\* POSTs sharing one x-session-id whose L2 calls take different times), and
\* each append happens before its interception call returns.
EntryOf(r) ==
    LET p == PayloadOf[r.payload] IN
    [role |-> "agent",
     content |-> IF p.method \in SafeSet
                 THEN [method |-> p.method, params_preview |-> None, verdict |-> None]
                 ELSE [method |-> p.method, params_preview |-> r.payload,
                       verdict |-> r.analysis[1].verdict]]

Positions(r) ==
    IF r.analysis = <<>> THEN {}
    ELSE {i \in 1 .. Len(sessions[r.sid].messages) :
             sessions[r.sid].messages[i] = EntryOf(r)}

C13_AppendsInArrivalOrder ==
    /\ \A t, u \in TaskIds :
          (/\ task[t].transport = "post" /\ task[u].transport = "post"
           /\ task[t].sid = task[u].sid
           /\ task[t].msg < task[u].msg
           /\ task[t].payload # task[u].payload)
          => \A i \in Positions(task[t]), j \in Positions(task[u]) : i < j
    /\ \A t \in TaskIds :
          (task[t].transport = "post" /\ task[t].outcome = "returned"
              /\ PayloadOf[task[t].payload].wf)
          => Positions(task[t]) # {}

\* C14: if no operator verdict arrives for a request within the timeout, the
\* escalation await returns BLOCK and the request's entry is no longer in
\* the pending-escalation map.
C14_TimeoutBlocksAndRemoves ==
    \A rid \in HubRids :
        (waiter[rid] = "returned" /\ futures[rid] \notin Verdict)
        => /\ <<rid, "BLOCK">> \in hub_returned
           /\ \A v \in Verdict : <<rid, v>> \in hub_returned => v = "BLOCK"
           /\ rid \notin DOMAIN pending

C14_Witness ==
    \E rid \in HubRids :
        /\ waiter[rid] = "returned" /\ futures[rid] = "cancelled"
        /\ <<rid, "BLOCK">> \in hub_returned
        /\ rid \notin DOMAIN pending

\* C15: an operator command {action, request_id} resolves the pending
\* escalation for request_id with BLOCK when action is "block" and with
\* ALLOW when action is "allow", at most once per request; a command for a
\* request_id that is unknown, already resolved or already timed out
\* changes no state and resolves nothing.
C15_OperatorCommand ==
    [][/\ \A action \in {"block", "allow"}, rid \in HubCommandIds :
             _client_receiver(action, rid)
             => IF rid \in DOMAIN pending /\ futures[rid] = "pending"
                THEN /\ futures'[rid] = (IF action = "block" THEN "BLOCK" ELSE "ALLOW")
                     /\ rid \notin DOMAIN pending'
                     /\ \A other \in HubRids \ {rid} : futures'[other] = futures[other]
                ELSE rid \notin DOMAIN pending => UNCHANGED vars
       /\ \A rid \in HubRids :
             futures[rid] \in Verdict => futures'[rid] = futures[rid]
      ]_vars

C15_Witness ==
    /\ futures["r1"] = "ALLOW" /\ "r1" \notin DOMAIN pending
    /\ <<"r1", "ALLOW">> \in hub_returned
    /\ futures["r2"] = "BLOCK" /\ "r2" \notin DOMAIN pending
    /\ <<"r2", "BLOCK">> \in hub_returned

\* C16: every entry inserted into the pending-escalation map is eventually
\* removed, by resolution or at its deadline, also when the task awaiting it
\* is cancelled because its requester disconnected.
C16_PendingEventuallyRemoved ==
    \A rid \in HubRids : (rid \in DOMAIN pending) ~> (rid \notin DOMAIN pending)

\* C17: each subscriber's buffer holds at most _CLIENT_BUFFER_SIZE events; a
\* broadcast to a subscriber whose buffer is full discards that buffer's
\* oldest event and enqueues the new one, so a buffer holds the most recent
\* events in broadcast order; broadcast never waits for a subscriber.
C17_DropOldest ==
    [][/\ \A c \in DOMAIN clients' :
             LET q == clients'[c] IN
             /\ Len(q) <= _CLIENT_BUFFER_SIZE
             /\ \A i \in 1 .. Len(q) - 1 : q[i + 1] = q[i] + 1
       /\ nmsgs' = nmsgs + 1
          => /\ DOMAIN clients' = DOMAIN clients
             /\ \A c \in DOMAIN clients :
                   /\ clients'[c] =
                         IF Len(clients[c]) = _CLIENT_BUFFER_SIZE
                         THEN Append(Tail(clients[c]), nmsgs')
                         ELSE Append(clients[c], nmsgs')
                   /\ clients'[c][Len(clients'[c])] = nmsgs'
       /\ nmsgs < MaxEvents => ENABLED broadcast
      ]_vars

C17_Witness ==
    \E c \in DOMAIN clients :
        /\ nmsgs = _CLIENT_BUFFER_SIZE + 2
        /\ clients[c] = [i \in 1 .. _CLIENT_BUFFER_SIZE |-> i + 2]

\* C18: when the L2 backend times out, raises or returns malformed output,
\* the semantic analyzer returns is_injection = false, confidence 0 and
\* threat level NONE, and the verdict of that interception is the one the
\* policy table gives for the L1 level with no injection, which is never
\* BLOCK.
Degraded(reply) ==
    \/ reply.kind \in LlmFailures
    \/ reply.kind = "answer"
          /\ (reply.is_injection \notin {"true", "false"}
                 \/ reply.confidence \notin JsonNumbers)

C18_L2FailOpen ==
    [][\A t \in TaskIds, reply \in LlmReplies, seen \in BOOLEAN :
          (/\ classifier = "llm" /\ Degraded(reply)
           /\ intercept_and_analyze_l2(t, reply, FALSE, seen))
          => LET r == task'[t] IN
             /\ r.l2 # <<>>
             /\ ~r.l2[1].is_injection
             /\ r.l2[1].confidence = 0
             /\ r.l2[1].threat_level = "NONE"
             /\ r.analysis # <<>>
             /\ r.analysis[1].verdict = DecisionTable(r.l1[1].threat_level, FALSE, 0)
             /\ r.analysis[1].verdict # "BLOCK"
      ]_vars

\* C19: if the audit callback or the operator-event callback raises, the
\* Interceptor still returns the same verdict, threat level and blocking
\* response as when both succeed, and a failure of the audit callback does
\* not prevent the operator-event callback from being invoked.
C19_EmissionFailureHarmless ==
    \A t \in TaskIds :
        LET r == task[t] IN
        (r.transport = "post" /\ r.audits > 0)
        => LET pv == _compute_verdict(r.l1[1], r.l2[1]) IN
           /\ r.outcome = "returned"
           /\ r.analysis[1].verdict = pv.verdict
           /\ r.analysis[1].threat_level = pv.threat_level
           /\ r.response = IF pv.verdict = "BLOCK"
                           THEN <<JsonRpcResponse(PayloadOf[r.payload].id,
                                     JsonRpcError(-32001,
                                         "Request blocked by Agent Firewall",
                                         <<[threat_level |-> pv.threat_level,
                                            reason |-> pv.reason,
                                            request_id |-> r.analysis[1].request_id]>>))>>
                           ELSE <<>>
           /\ r.events = 1

C19_Witness ==
    \E t, u \in TaskIds :
        /\ task[t].faults = {"audit", "event"} /\ task[t].outcome = "returned"
        /\ task[t].analysis[1].verdict = "BLOCK" /\ task[t].response # <<>>
        /\ task[t].events = 1
        /\ task[u].faults = {"audit"} /\ task[u].outcome = "returned"
        /\ task[u].analysis[1].verdict = "ALLOW" /\ task[u].response = <<>>
        /\ task[u].events = 1

\* C20: a sweep removes exactly the sessions whose age (sweep time minus
\* last_active) strictly exceeds the TTL; a session whose age equals the TTL
\* or is smaller is retained, so a session that was created, fetched by
\* get_or_create or pushed to within the TTL is never removed by the
\* sweeper.
C20_SweepRemovesOnlyExpired ==
    [][/\ _gc_loop
          => \A sid \in DOMAIN sessions :
                /\ sid \in DOMAIN sessions'
                      <=> now - sessions[sid].last_active <= session_ttl_seconds
                /\ sid \in DOMAIN sessions' => sessions'[sid] = sessions[sid]
       /\ \A sid \in DOMAIN sessions :
             sid \notin DOMAIN sessions'
             => now - sessions[sid].last_active > session_ttl_seconds
       /\ \A sid \in DOMAIN sessions' :
             (sid \notin DOMAIN sessions \/ sessions'[sid] # sessions[sid])
             => sessions'[sid].last_active = now
      ]_vars

C20_Witness ==
    /\ gc_swept = 1
    /\ DOMAIN sessions = {"b"}
    /\ now = session_ttl_seconds + 1
    /\ sessions["b"].last_active = 1
    /\ Len(sessions["b"].messages) = 1

\* C21: for every BLOCK decided by the policy, the serialized blocking
\* response parses back to a JSON-RPC error with code -32001 whose
\* data.request_id equals the request_id of the AnalysisResult returned by
\* the same interception call and whose id equals the id of the blocked
\* request (a key left out of the serialized form parses back as None).
ParsedResponse(bytes) ==
    [id |-> IF "id" \in DOMAIN bytes THEN bytes.id ELSE None,
     code |-> bytes.error.code,
     request_id |-> IF "data" \in DOMAIN bytes.error
                    THEN <<bytes.error.data.request_id>> ELSE <<>>]

C21_BlockResponseRoundTrip ==
    \A t \in TaskIds :
        LET r == task[t] IN
        (r.transport \in {"post", "ws", "stdio"} /\ r.pc = "done"
            /\ r.outcome = "returned" /\ r.l1 # <<>>
            /\ r.analysis[1].verdict = "BLOCK")
        => /\ r.reply # <<>> /\ r.reply[1].body # <<>>
           /\ LET parsed == ParsedResponse(r.reply[1].body[1]) IN
              /\ parsed.code = -32001
              /\ parsed.request_id = <<r.analysis[1].request_id>>
              /\ parsed.id = PayloadOf[r.payload].id

C21_Witness ==
    \E t, u \in TaskIds :
        /\ task[t].pc = "done" /\ task[t].payload = "hex" /\ task[t].transport = "post"
        /\ task[t].analysis[1].verdict = "BLOCK"
        /\ "id" \notin DOMAIN task[t].reply[1].body[1]
        /\ task[u].pc = "done" /\ task[u].payload = "rm_rf" /\ task[u].transport = "ws"
        /\ task[u].analysis[1].verdict = "BLOCK"
        /\ task[u].reply[1].body[1].id = "10"
        /\ task[u].reply[1].body[1].error.data.request_id = task[u].analysis[1].request_id

\* C22: in the stdio adapter, a line read from the agent is written to the
\* server's stdin only if the Interceptor's verdict for that line is ALLOW.
C22_StdioForwardsOnlyAllow ==
    \A t \in TaskIds :
        (task[t].transport = "stdio" /\ task[t].forwarded)
        => /\ task[t].analysis # <<>>
           /\ task[t].analysis[1].verdict = "ALLOW"

\* C23: in the server-push stream adapter, an event whose data fields are
\* not a valid agent-protocol JSON message is forwarded byte-for-byte
\* unchanged.
C23_SseNonJsonPassesThrough ==
    \A t \in TaskIds :
        (task[t].transport = "sse" /\ task[t].pc = "done"
            /\ ~PayloadOf[task[t].payload].wf)
        => task[t].forwarded /\ task[t].reply = <<>>

\* C24: for every intercepted well-formed non-safe message whose L1 result is
\* HIGH or CRITICAL, the final verdict is BLOCK or ESCALATE (never ALLOW) and
\* the final threat level is HIGH or CRITICAL, whatever L2 returns, including
\* an L2 failure.
C24_HighL1NeverAllowed ==
    \A t \in TaskIds :
        LET r == task[t] IN
        (r.transport \in Mcp /\ r.l1 # <<>> /\ r.analysis # <<>>
            /\ r.l1[1].threat_level \in {"HIGH", "CRITICAL"})
        => /\ r.analysis[1].verdict \in {"BLOCK", "ESCALATE"}
           /\ r.analysis[1].threat_level \in {"HIGH", "CRITICAL"}

C24_Witness ==
    \E t, u \in TaskIds :
        /\ Returned(task[t])
        /\ task[t].l1 # <<>> /\ task[t].l1[1].threat_level = "HIGH"
        /\ task[t].l2 # <<>> /\ task[t].l2[1].reasoning = "LLM timeout"
        /\ task[t].analysis[1].verdict = "ESCALATE"
        /\ task[t].analysis[1].threat_level = "HIGH"
        /\ Returned(task[u])
        /\ task[u].l1 # <<>> /\ task[u].l1[1].threat_level = "HIGH"
        /\ task[u].l2 # <<>> /\ task[u].l2[1].is_injection
        /\ task[u].analysis[1].verdict = "BLOCK"
        /\ task[u].analysis[1].threat_level = "CRITICAL"

C27_NeverRaises ==
    \A t \in TaskIds :
        (task[t].transport \in Mcp /\ task[t].outcome # "none")
        => /\ task[t].outcome # "raised"
           /\ (task[t].outcome = "returned" => task[t].analysis # <<>>)

C29_AppendsToRegisteredSession ==
    [][\A c \in DOMAIN held :
          (c \in DOMAIN held' /\ held'[c].received = held[c].received + 1)
          => /\ held[c].evicted = <<>>
             /\ held'[c].evicted = <<>>
             /\ held[c].session_id \in DOMAIN sessions']_vars

\* C30: after the rule set is changed (a config reload replacing
\* blocked_commands, or a rule added or removed), every interception call
\* that starts afterwards, on any transport, is analyzed by L1 with the new
\* rule set, the one AppState.static_analyzer holds.
C30_NewRulesTakeEffect ==
    [][Len(l1_log') = Len(l1_log) + 1
         => LET e == l1_log'[Len(l1_log')] IN
            e.l1 = StaticAnalyzer_analyze(analyzers[l1_refs["app"]],
                                          PayloadOf[e.payload])]_vars

\* C31: when the agent side of a bidirectional stream disconnects, both
\* pumps (agent-to-server and server-to-agent) terminate as a group, without
\* waiting for a further message or a close from the upstream.
C31_DisconnectEndsBothPumps ==
    (pumps.client = "closed") ~> (pumps.a2s # "running" /\ pumps.s2a # "running")

\* C32: for every (is_injection, confidence) pair returned by the model, the
\* external-model backend derives the same threat level as the deterministic
\* substitute's rule: CRITICAL if confidence >= 0.90, HIGH if confidence >=
\* 0.80, otherwise MEDIUM for an injection, and NONE for a non-injection.
SubstituteRule(is_injection, confidence) ==
    IF ~is_injection THEN "NONE"
    ELSE IF confidence >= 90 THEN "CRITICAL"
    ELSE IF confidence >= 80 THEN "HIGH" ELSE "MEDIUM"

C32_LlmLevelMirrorsSubstitute ==
    (call.stage = "out" /\ call.arg.kind = "answer"
        /\ call.out[1].reasoning = "llm")
    => call.out[1].threat_level
         = SubstituteRule(call.out[1].is_injection, call.out[1].confidence)

\* C33: the Interceptor returns a blocking response exactly when the verdict
\* of the AnalysisResult it returns is BLOCK (an error response of code
\* -32001, or -32700 for a parse failure); for ESCALATE and for ALLOW it
\* returns none.
C33_ResponseExactlyForBlock ==
    \A t \in TaskIds :
        LET r == task[t] IN
        Returned(r)
        => CASE r.analysis[1].verdict = "BLOCK" ->
                  /\ r.response # <<>>
                  /\ r.response[1].error.code
                       = (IF PayloadOf[r.payload].wf THEN -32001 ELSE -32700)
             [] r.analysis[1].verdict = "ESCALATE" -> r.response = <<>>
             [] r.analysis[1].verdict = "ALLOW" -> r.response = <<>>

C33_Witness ==
    \E t, u \in TaskIds :
        /\ Returned(task[t]) /\ task[t].payload = "malformed"
        /\ task[t].analysis[1].verdict = "BLOCK"
        /\ task[t].response # <<>> /\ task[t].response[1].error.code = -32700
        /\ Returned(task[u]) /\ task[u].analysis[1].verdict = "ALLOW"
        /\ task[u].l1 # <<>> /\ task[u].response = <<>>

\* C34: every AnalysisResult the Interceptor returns, including the BLOCK
\* produced for a parse failure and the ALLOW produced for a safe method, is
\* emitted once to the audit callback and once to the operator-event
\* callback before the Interceptor returns.
C34_EveryResultEmitted ==
    \A t \in TaskIds :
        Returned(task[t]) => task[t].audits = 1 /\ task[t].events = 1

\* C35: get_or_create on an identifier already in the store returns the
\* stored session object itself with its buffer, agent_id and max_messages
\* unchanged and its last_active refreshed; on a new identifier it stores and
\* returns a session with an empty buffer, max_messages taken from
\* configuration and a fresh last_active; get never changes the map or any
\* field of a session.
C35_GetOrCreateEffect ==
    [][\A sid \in SweepSessionIds :
          /\ (sweep_get_or_create(sid) \/ sweep_get_or_create_default(sid))
             => /\ DOMAIN sessions' = DOMAIN sessions \cup {sid}
                /\ \A other \in DOMAIN sessions \ {sid} :
                      sessions'[other] = sessions[other]
                /\ sessions'[sid].session_id = sid
                /\ sessions'[sid].last_active = now
                /\ sessions'[sid].max_messages = BufSize
                /\ IF sid \in DOMAIN sessions
                   THEN /\ sessions'[sid].messages = sessions[sid].messages
                        /\ sessions'[sid].agent_id = sessions[sid].agent_id
                        /\ sessions'[sid].max_messages = sessions[sid].max_messages
                   ELSE /\ sessions'[sid].messages = <<>>
                        /\ sessions'[sid].agent_id \in {"http-agent", ""}
          /\ sweep_get(sid)
             => /\ sessions' = sessions
                /\ call'.out = (IF sid \in DOMAIN sessions THEN <<sessions[sid]>>
                                ELSE <<>>)
      ]_vars

\* A session fetched by get (one message, stamped earlier) was fetched again
\* later by get_or_create: same buffer and agent, newer last_active.
C35_Witness ==
    /\ call.stage = "out" /\ call.arg = <<"a">> /\ call.out # <<>>
    /\ "a" \in DOMAIN sessions
    /\ Len(call.out[1].messages) = 1
    /\ sessions["a"].messages = call.out[1].messages
    /\ sessions["a"].agent_id = "http-agent"
    /\ sessions["a"].last_active > call.out[1].last_active

\* C36: after n pushes into a session whose max_messages is k >= 1, the
\* buffer holds exactly the last min(n, k) pushed messages in push order: the
\* oldest messages are evicted first and no retained message is reordered.
\* (Stated push by push: the buffer after the n-th push is the pushed message
\* preceded by the last min(n, k) - 1 messages of the buffer before it.)
C36_RingKeepsLastK ==
    [][\A content \in RingContents :
          (ring_push(content) /\ sessions["r"].max_messages >= 1)
          => LET k == sessions["r"].max_messages
                 old == sessions["r"].messages
                 new == sessions'["r"].messages
                 m == Min(nmsgs', k)
             IN  /\ Len(old) = Min(nmsgs, k)
                 /\ Len(new) = m
                 /\ new[m] = [role |-> "agent", content |-> content]
                 /\ \A i \in 1..(m - 1) : new[i] = old[Len(old) - (m - 1) + i]
      ]_vars

C36_Witness ==
    /\ "r" \in DOMAIN sessions
    /\ sessions["r"].max_messages = 2
    /\ nmsgs = 4
    /\ Len(sessions["r"].messages) = 2
    /\ sessions["r"].messages[1].content = "b"
    /\ sessions["r"].messages[2].content = "c"

\* C37: the deterministic substitute flags an injection exactly when a marker
\* phrase occurs in the serialized params or in the content of one of the
\* last ten session messages, and it then reports the highest confidence
\* among the matching markers; a marker that occurs only in session messages
\* older than the last ten does not flag, and a non-match yields
\* non-injection with confidence 0.05 and threat level NONE.
MarkersInReach(arg) ==
    LET ctx == arg.session_context IN
    {INJECTION_MARKERS[k].marker : k \in 1..Len(INJECTION_MARKERS)}
    \cap (PayloadOf[arg.params].markers
          \cup {mk \in PayloadOf["sudo"].pv_markers \cup PayloadOf["ignore_prev"].pv_markers :
                  \E i \in 1..Len(ctx) :
                     /\ i > Len(ctx) - 10
                     /\ mk \in PayloadOf[ctx[i].content.params_preview].pv_markers})

ConfidenceOf(mk) ==
    LET k == CHOOSE k \in 1..Len(INJECTION_MARKERS) : INJECTION_MARKERS[k].marker = mk
    IN  INJECTION_MARKERS[k].confidence

C37_SubstituteFlagsOnMarkerInReach ==
    call.stage = "out"
    => LET found == MarkersInReach(call.arg)
           out == call.out[1]
       IN  /\ out.is_injection <=> found # {}
           /\ found # {}
              => /\ \E mk \in found : out.confidence = ConfidenceOf(mk)
                 /\ \A mk \in found : out.confidence >= ConfidenceOf(mk)
           /\ found = {}
              => out.confidence = 5 /\ out.threat_level = "NONE"

\* A marker in the second of twelve session messages, and none in the
\* params: no injection is reported.
C37_Witness ==
    /\ call.stage = "out"
    /\ call.arg.params = "benign_call"
    /\ Len(call.arg.session_context) = 12
    /\ call.arg.session_context[2].content.params_preview = "ignore_prev"
    /\ ~call.out[1].is_injection /\ call.out[1].confidence = 5

\* C38: the L1 threat level is the maximum severity over all of its hits,
\* where every dictionary hit counts as HIGH, every structural detector
\* counts with its own severity and a dictionary hit inside a decoded
\* base-64 run counts as HIGH; the level is NONE exactly when the list of
\* matched patterns is empty.
HitSeverities(text) ==
    {LevelRank("HIGH") : hit \in text.lits \cap blocked_commands}
    \cup {LevelRank(REGEX_BATTERY[i].level) :
             i \in {k \in 1..Len(REGEX_BATTERY) : REGEX_BATTERY[k].name \in text.rx}}
    \cup {LevelRank("HIGH") : hit \in text.b64_lits \cap blocked_commands}

C38_L1LevelIsMaxSeverity ==
    call.stage = "out"
    => LET sev == HitSeverities(call.arg)
           out == call.out[1]
       IN  /\ LevelRank(out.threat_level) \in sev \cup {0}
           /\ \A v \in sev : LevelRank(out.threat_level) >= v
           /\ sev = {} => out.threat_level = "NONE"
           /\ out.threat_level = "NONE" <=> out.matched_patterns = <<>>

\* A MEDIUM and a LOW detector fire and a decoded run holds a blocked
\* command: the level is HIGH.
C38_Witness ==
    /\ call.stage = "out"
    /\ call.arg.lits = {}
    /\ call.arg.rx = {"hex_obfuscation", "suspicious_base64_blob"}
    /\ call.arg.b64_lits = {"rm -rf"}
    /\ call.out[1].threat_level = "HIGH"
    /\ Len(call.out[1].matched_patterns) = 3

\* C39: an operator command whose action is neither "block" nor "allow"
\* leaves the pending escalation for its request_id unresolved and still in
\* the pending map; in particular it never resolves the escalation to ALLOW.
C39_UnknownActionResolvesNothing ==
    [][\A action \in HubActions \ {"block", "allow"}, rid \in HubCommandIds :
          _client_receiver(action, rid)
          => /\ pending' = pending
             /\ futures' = futures
             /\ \A r \in HubRids : futures[r] = "pending" => futures'[r] # "ALLOW"
      ]_vars

\* C40: an interception call on one session leaves the buffer and
\* last_active of every other session unchanged, and its verdict and threat
\* level do not depend on the contents of any other session: a call whose
\* session holds no message but its own gets the verdict and level the same
\* call gets on a store that holds no other session.
Acts(t) ==
    \/ task'[t].msg # task[t].msg
    \/ task[t].pc = "l2" /\ task'[t].pc # "l2"
    \/ task[t].pc = "emit" /\ task'[t].pc # "emit"

AloneOn(r) ==
    LET fresh == get_or_create(EmptyMap, r.sid, "agent")
        r0 == [IdleTask EXCEPT !.transport = r.transport, !.sid = r.sid,
                               !.payload = r.payload]
        b == intercept_begin(r0, fresh, 1, "mock", FALSE)
    IN  IF b.r.pc = "l2"
        THEN intercept_l2_returned(b.r, b.store, b.rid, "mock", NoReply, FALSE).r
        ELSE b.r

C40_OtherSessionsUntouched ==
    /\ [][\A t \in TaskIds :
            Acts(t) => \A o \in DOMAIN sessions \ {task'[t].sid} :
                          /\ o \in DOMAIN sessions'
                          /\ sessions'[o] = sessions[o]]_vars
    /\ [](\A t \in TaskIds :
            (/\ task[t].transport \in Mcp
             /\ task[t].analysis # <<>>
             /\ task[t].outcome # "raised"
             /\ Len(sessions[task[t].sid].messages) = 1)
            => /\ task[t].analysis[1].verdict = AloneOn(task[t]).analysis[1].verdict
               /\ task[t].analysis[1].threat_level
                     = AloneOn(task[t]).analysis[1].threat_level)

C40_Witness ==
    \E t, u \in TaskIds :
        /\ Returned(task[t]) /\ Returned(task[u])
        /\ task[t].sid = "s1" /\ task[u].sid = "ws-1"
        /\ task[t].msg < task[u].msg
        /\ task[t].payload = "ignore_prev" /\ task[u].payload = "sudo"
        /\ Len(sessions["s1"].messages) = 1
        /\ sessions["s1"].messages[1].content.params_preview = "ignore_prev"
        /\ Len(sessions["ws-1"].messages) = 1
        /\ sessions["s1"].last_active < sessions["ws-1"].last_active
        /\ task[t].analysis[1].verdict # task[u].analysis[1].verdict

====
